---- MODULE Spec2Model ----
(***************************************************************************)
(* State-machine model of the resilience layer of mcp-toolbox-db:          *)
(*   - MCPOrchestrator      (src/adk-mcp-app/src/mcp_orchestrator.py)      *)
(*   - EnhancedMCPClient    (src/adk-mcp-app/src/enhanced_mcp_client.py)   *)
(*   - MCPFallbackHandler   (src/adk-mcp-app/src/mcp_fallback_handler.py)  *)
(*   - CircuitBreaker       (src/adk-mcp-app/src/error_recovery.py)        *)
(*   - BatchExecutor        (src/adk-mcp-app/src/mcp_connection_monitor.py)*)
(*   - MCPConnectionMonitor (src/adk-mcp-app/src/mcp_connection_monitor.py)*)
(*                                                                         *)
(* Time is counted in minutes.  A Python exception is modelled by the      *)
(* name of its class in a field "raised" ("none" when the call returned).  *)
(* Write-only logs and measured durations (execution_time, total_time,     *)
(* total_duration_ms, error_history, the timestamps of mode_history) are   *)
(* left out: no code path reads them back.                                 *)
(***************************************************************************)
EXTENDS Integers, Sequences, FiniteSets, TLC

(***************************************************************************)
(* Bounds of the model                                                     *)
(***************************************************************************)
MaxTime == 10          \* the clock stops here
MaxCalls == 3          \* execute_tool calls explored in one behaviour of SpecCalls
MaxFailoverCalls == 1  \* execute_tool calls explored in one behaviour of Spec
PoolSize == 2          \* handles in the client pool (connection_pool_size, 10 by default)
MaxErrors == 3         \* _handle_failure events explored while errors accumulate
MaxRecoveries == 1     \* recovery attempts (scheduled or run) explored
MaxBreakerTime == 3    \* the clock of the circuit-breaker specification stops here
MaxGatedCalls == 1     \* execute_tool calls explored in one behaviour of SpecGate
MaxInvokes == 2        \* invoke_tool calls explored in one behaviour of SpecClient
MaxRetriedCalls == 1    \* invoke_tool calls explored in one behaviour of SpecRetry
MaxBatch == 3          \* the longest tool_calls list handed to execute_batch
MaxConcurrent == 2     \* the largest max_concurrent of a BatchExecutor (5 by default)
MaxChecks == 4         \* probe cycles of the monitor loop explored
MaxLoops == 2          \* monitor loop tasks created in one behaviour
MaxStops == 2          \* stop_monitoring calls explored
MaxCallbacks == 2      \* the longest callback list of the monitor
MaxWords == 2          \* words in an error message that is classified
MaxHandled == 1        \* handle_error calls in one behaviour
MaxCallers == 2        \* coroutines sharing the pool
MaxAcquires == 4       \* _get_client calls followed on one pool
MaxTasks == 2          \* _attempt_recovery tasks scheduled by status changes
MaxSuccesses == 2      \* fallback successes followed in one behaviour
MaxRetryCount == 3     \* the largest retry_count of an error context

(***************************************************************************)
(* Program constants                                                       *)
(***************************************************************************)
error_threshold == 3               \* mcp_orchestrator.py:88
recovery_strategy_max_retries == 3 \* mcp_orchestrator.py:31
recovery_window == 5               \* mcp_orchestrator.py:35, minutes
mode_history_limit == 100          \* mcp_orchestrator.py:346
max_retries == 3                   \* enhanced_mcp_client.py:50
retry_delay == 1                   \* enhanced_mcp_client.py:51, seconds
cache_ttl == 5                     \* enhanced_mcp_client.py:78, minutes
failure_threshold == 5             \* error_recovery.py:76
monitor_failure_threshold == 3     \* mcp_connection_monitor.py:37
recovery_timeout == 1              \* error_recovery.py:77, minutes
success_threshold == 2             \* error_recovery.py:78

\* The clock of the orchestrator specification advances in steps of this many
\* minutes: ages 0, cache_ttl and 2 * cache_ttl cover "younger than", "exactly"
\* and "older than" for both the cache ttl and the recovery window.
ClockStep == cache_ttl

NoTime == -1           \* Python None for an Optional[datetime]

ExecutionMode == {"PRIMARY", "FALLBACK", "DEGRADED", "RECOVERY"}

\* Tool names used as inputs: one with a local fallback implementation, one without.
Tools == {"list_products", "add_order_item"}

\* A parameter mapping is the sequence of its <<key, value>> items in the order
\* the caller inserted them (a Python dict keeps insertion order).  A key is
\* written as its rank in the order sort_keys uses, a value as its JSON text;
\* "datetime" stands for a value json.dumps rejects (a datetime, a set, ...).
\* Parameter mappings used as inputs of execute_tool: a JSON-serialisable one
\* and one json.dumps rejects.
Params == {<<<<1, "10">>, <<2, "true">>>>, <<<<1, "datetime">>>>}

\* Parameter mappings used as inputs of invoke_tool: also the first mapping
\* with its items inserted in the other order, and a different mapping.
ClientParams == Params \cup {<<<<2, "true">>, <<1, "10">>>>, <<<<1, "20">>>>}

\* What the remote target does with one HTTP request.
Outcome == {"ok200", "rpc_error200", "http4xx", "http5xx", "request_error", "exception"}

\* How a remote target behaves over the requests of one call (answers[k] is
\* its answer to the k-th request): it answers every request the same way, or
\* it fails a number of times with a retried failure and then succeeds.
Retried(o) == o \in {"http5xx", "request_error"}

Targets(answers) ==
    {[k \in 1..3 |-> o] : o \in answers}
    \cup {[k \in 1..3 |-> IF k <= n THEN o ELSE "ok200"] :
              n \in 1..2, o \in {x \in answers : Retried(x)}}

InvokeAnswers == Targets(Outcome)
ManifestAnswers == Targets(Outcome \ {"rpc_error200"})

VARIABLES
    \* MCPOrchestrator
    fallback_handler,       \* TRUE: an MCPFallbackHandler was built (database_path given)
    current_mode,
    consecutive_errors,
    recovery_attempts,
    last_recovery_attempt,
    mode_history,           \* the modes recorded by _record_mode_change
    mode_metrics,           \* per mode: executions, successes
    recovery_tasks,         \* _attempt_recovery tasks created and not yet run
    initialized,            \* initialize() has been called
    \* EnhancedMCPClient
    client_state,
    client_pool,            \* number of handles in the pool
    pool_index,
    tools_loaded,           \* self.tools is non-empty
    metrics,                \* per tool: execution_count, success_count, failure_count
    cache,                  \* per cache key: the cached result and its timestamp
    \* CircuitBreaker
    cb_state,
    failure_count,
    success_count,
    last_failure_time,
    \* BatchExecutor
    batch_phase,            \* where the executor and its execute_batch call stand
    max_concurrent,
    execution_stats,        \* total_batches, total_tools, failures
    tool_calls,             \* the calls of the batch, each named by its position
    parallel,
    stop_on_error,
    task,                   \* per call: where its execute_with_semaphore task stands
    results,                \* the results list the batch works on
    returned,               \* the list execute_batch returned
    \* MCPConnectionMonitor
    monitoring,
    monitor_task,           \* the loop task self.monitor_task names, 0 for None
    loop_tasks,             \* every monitor loop task created, by its state
    stop_waiting,           \* the tasks awaited by suspended stop_monitoring calls
    pending_checks,         \* the servers whose check of this cycle is not over
    servers,                \* per server: status, consecutive_failures, ...
    status_change_callbacks,
    failure_callbacks,
    recovery_callbacks,
    total_checks,
    \* environment and observation
    now,                    \* datetime.now(), minutes
    calls,                  \* execute_tool calls made so far
    failed_streak,          \* consecutive execute_tool calls whose remote attempt failed
    cb_failed_streak,       \* consecutive call_failed() since the last call_succeeded()
    cb_half_open_successes, \* call_succeeded() since the breaker entered HALF_OPEN
    invoke_outcome,         \* per call of the batch: what its invoke_tool did
    stops,                  \* stop_monitoring calls made so far
    error_counts,           \* ErrorRecoveryManager: errors recorded per error type
    recovery_success_counts,\* recoveries that succeeded, per primary action of the plan
    recovery_failure_counts,\* recoveries that failed, per primary action of the plan
    res                     \* what the last operation returned and did

orch_vars == <<fallback_handler, current_mode, consecutive_errors, recovery_attempts,
               last_recovery_attempt, mode_history, mode_metrics, recovery_tasks,
               initialized>>
client_vars == <<client_state, client_pool, pool_index, tools_loaded, metrics, cache>>
cb_vars == <<cb_state, failure_count, success_count, last_failure_time>>
batch_vars == <<batch_phase, max_concurrent, execution_stats, tool_calls, parallel,
                stop_on_error, task, results, returned, invoke_outcome>>
monitor_vars == <<monitoring, monitor_task, loop_tasks, stop_waiting, pending_checks,
                  servers, status_change_callbacks, failure_callbacks,
                  recovery_callbacks, total_checks, stops>>
recovery_vars == <<error_counts, recovery_success_counts, recovery_failure_counts>>
ghost_vars == <<calls, failed_streak, cb_failed_streak, cb_half_open_successes>>
vars == <<orch_vars, client_vars, cb_vars, batch_vars, monitor_vars, recovery_vars,
          ghost_vars, now, res>>

(***************************************************************************)
(* Python call semantics used below                                        *)
(***************************************************************************)
\* Arguments are bound when a function is called: a call that passes a number
\* of positional arguments the signature does not accept raises TypeError
\* before the body runs.
Binds(declared, passed) == declared = passed

get_available_tools_params == 0   \* enhanced_mcp_client.py:341, besides self
start_monitoring_params == 0      \* mcp_connection_monitor.py:74, besides self

\* The attributes an MCPFallbackHandler instance has; looking up any other
\* name on it raises AttributeError.
FallbackHandlerAttributes ==
    {"db_path", "fallback_mode", "fallback_reasons", "fallback_tools",
     "_find_database", "enable_fallback", "disable_fallback",
     "is_tool_supported", "execute_fallback_tool", "_execute_query",
     "_fallback_list_products", "_fallback_search_customers",
     "_fallback_get_customer_orders", "_fallback_customer_value_by_status",
     "_fallback_sales_by_month", "get_fallback_status"}

\* bool(x) of the value passed as use_cache, values written as Python writes them
Truthy(x) == x \notin {"False", "None", "", "0"}

(***************************************************************************)
(* EnhancedMCPClient                                                       *)
(***************************************************************************)
NoEntry == [present |-> FALSE, results |-> "none", timestamp |-> NoTime]

\* json.dumps(params, sort_keys=True) raises TypeError on a value it cannot encode
JsonSerialisable(params) == \A i \in 1..Len(params) : params[i][2] # "datetime"

\* the items sorted by key, as sort_keys=True writes them
RECURSIVE SortKeys(_)
SortKeys(items) ==
    IF Len(items) = 0
    THEN <<>>
    ELSE LET least == CHOOSE i \in 1..Len(items) :
                         \A j \in 1..Len(items) : items[i][1] <= items[j][1]
             rest == [k \in 1..(Len(items) - 1) |->
                         IF k < least THEN items[k] ELSE items[k + 1]]
         IN <<items[least]>> \o SortKeys(rest)

\* json.dumps(params, sort_keys=True)
JsonDumps(params) == SortKeys(params)

\* _get_cache_key that writes the items in the order the caller inserted them
GetCacheKeyUnsorted(tool_name, params) == <<tool_name, params>>

GetCacheKey(tool_name, params) == <<tool_name, JsonDumps(params)>>

\* the cache keys the inputs can produce
CacheKeys == {GetCacheKey(t, q) : t \in Tools, q \in {x \in ClientParams : JsonSerialisable(x)}}

\* _get_cached_result: a valid entry is returned, an expired one is deleted
GetCachedResult(cache_key, c, t) ==
    IF c[cache_key].present
    THEN IF t - c[cache_key].timestamp < cache_ttl
         THEN [hit |-> TRUE, results |-> c[cache_key].results, cache |-> c]
         ELSE [hit |-> FALSE, results |-> "none",
               cache |-> [c EXCEPT ![cache_key] = NoEntry]]
    ELSE [hit |-> FALSE, results |-> "none", cache |-> c]

SetCachedResult(cache_key, result, c, t) ==
    [c EXCEPT ![cache_key] = [present |-> TRUE, results |-> result, timestamp |-> t]]

\* a _get_client that leaves pool_index where it is
GetClientSameHandle(pool, index) ==
    IF pool = 0
    THEN [raised |-> "RuntimeError", pool_index |-> index]
    ELSE [raised |-> "none", pool_index |-> index]

\* _get_client: round-robin over the pool, RuntimeError on an empty pool
GetClient(pool, index) ==
    IF pool = 0
    THEN [raised |-> "RuntimeError", pool_index |-> index]
    ELSE [raised |-> "none", pool_index |-> (index + 1) % pool]

\* _parse_mcp_result of the body of a 200 response: with a "result" member the
\* payload is taken from it, without one the whole envelope becomes the payload;
\* the status is "success" on every path.
ParseMcpResult(o) ==
    IF o = "ok200"
    THEN [status |-> "success", results |-> "result"]
    ELSE [status |-> "success", results |-> "envelope"]

ErrorResult(a, msg) == [a EXCEPT !.status = "error", !.results = "none", !.error = msg]

\* a delay that does not grow with the attempt
BackoffConstant(attempt) == retry_delay

\* the delay slept after the failure of iteration `attempt` (counted from 0)
Backoff(attempt) == retry_delay * (attempt + 1)

\* The retry loop of invoke_tool from iteration `attempt` on.  outs[k] is what
\* the remote does with the k-th request of this call; acc gathers what the
\* call did so far.
RECURSIVE InvokeLoop(_, _, _, _)
InvokeLoop(attempt, outs, pool, acc) ==
    IF attempt >= max_retries
    THEN \* all retries failed
         ErrorResult([acc EXCEPT !.failures = @ + 1], "failed_after_retries")
    ELSE
    LET g == GetClient(pool, acc.pool_index) IN
    IF g.raised # "none"
    THEN \* except Exception
         ErrorResult([acc EXCEPT !.failures = @ + 1], g.raised)
    ELSE
    LET o == outs[acc.requests + 1]
        a1 == [acc EXCEPT !.pool_index = g.pool_index, !.requests = @ + 1, !.last = o]
    IN  CASE o \in {"ok200", "rpc_error200"} ->
                LET parsed == ParseMcpResult(o) IN
                [a1 EXCEPT !.status = parsed.status, !.results = parsed.results,
                           !.successes = @ + 1]
          [] o = "http5xx" ->
                IF attempt < max_retries - 1
                THEN InvokeLoop(attempt + 1, outs, pool,
                        [a1 EXCEPT !.fails = @ + 1,
                                   !.sleeps = Append(@, Backoff(attempt))])
                ELSE InvokeLoop(attempt + 1, outs, pool, [a1 EXCEPT !.fails = @ + 1])
          [] o = "http4xx" ->
                ErrorResult([a1 EXCEPT !.failures = @ + 1], "http4xx")
          [] o = "request_error" ->
                IF attempt < max_retries - 1
                THEN InvokeLoop(attempt + 1, outs, pool,
                        [a1 EXCEPT !.fails = @ + 1,
                                   !.sleeps = Append(@, Backoff(attempt))])
                ELSE InvokeLoop(attempt + 1, outs, pool,
                        [a1 EXCEPT !.fails = @ + 1, !.failures = @ + 1])
          [] OTHER ->
                ErrorResult([a1 EXCEPT !.failures = @ + 1], "exception")

\* invoke_tool(tool_name, params, use_cache) on the client state cs
\* (pool, pool_index, metrics, cache) at time t.
InvokeTool(tool_name, params, use_cache, outs, cs, t) ==
    LET blank == [raised |-> "none", status |-> "none", results |-> "none",
                  error |-> "none", cache_hit |-> FALSE, requests |-> 0,
                  fails |-> 0, last |-> "none", successes |-> 0, failures |-> 0,
                  sleeps |-> <<>>, pool_index |-> cs.pool_index, cs |-> cs]
    IN
    IF Truthy(use_cache) /\ ~JsonSerialisable(params)
    THEN [blank EXCEPT !.raised = "TypeError"]      \* _get_cache_key raises
    ELSE
    LET cache_key == GetCacheKey(tool_name, params)
        looked == IF Truthy(use_cache)
                  THEN GetCachedResult(cache_key, cs.cache, t)
                  ELSE [hit |-> FALSE, results |-> "none", cache |-> cs.cache]
    IN
    IF looked.hit
    THEN [blank EXCEPT !.status = "success", !.results = looked.results,
                       !.cache_hit = TRUE]
    ELSE
    LET \* a mapping json cannot encode makes client.post(json=payload) raise
        sent == IF JsonSerialisable(params)
                THEN outs
                ELSE [k \in 1..Len(outs) |-> "exception"]
        a == InvokeLoop(0, sent, cs.pool, blank)
        m == cs.metrics[tool_name]
        m1 == [execution_count |-> m.execution_count + 1,
               success_count |-> m.success_count + a.successes,
               failure_count |-> m.failure_count + a.failures]
        c1 == IF a.status = "success" /\ Truthy(use_cache)
              THEN SetCachedResult(cache_key, a.results, looked.cache, t)
              ELSE looked.cache
    IN [a EXCEPT !.cs = [pool |-> cs.pool, pool_index |-> a.pool_index,
                         metrics |-> [cs.metrics EXCEPT ![tool_name] = m1],
                         cache |-> c1]]

\* load_tools: [ok, requests, pool_index] for the answers outs of the manifest GETs
RECURSIVE LoadToolsLoop(_, _, _, _)
LoadToolsLoop(attempt, outs, pool, acc) ==
    IF attempt >= max_retries
    THEN [acc EXCEPT !.ok = FALSE]
    ELSE
    LET g == GetClient(pool, acc.pool_index) IN
    IF g.raised # "none"
    THEN [acc EXCEPT !.ok = FALSE]                  \* except Exception: break
    ELSE
    LET o == outs[acc.requests + 1]
        a1 == [acc EXCEPT !.pool_index = g.pool_index, !.requests = @ + 1]
    IN  CASE o \in {"ok200", "rpc_error200"} -> [a1 EXCEPT !.ok = TRUE]
          [] o \in {"http5xx", "http4xx", "request_error"} ->
                LoadToolsLoop(attempt + 1, outs, pool, a1)
          [] OTHER -> [a1 EXCEPT !.ok = FALSE]

LoadTools(outs, pool, index) ==
    LoadToolsLoop(0, outs, pool, [ok |-> FALSE, requests |-> 0, pool_index |-> index])

(***************************************************************************)
(* MCPFallbackHandler                                                      *)
(***************************************************************************)
\* the keys of self.fallback_tools
FallbackTools == {"list_products", "search_customers", "get_customer_orders",
                  "get_customer_value_by_status", "sales_by_month"}

IsToolSupported(tool_name) == tool_name \in FallbackTools

\* _execute_query: the rows, or the empty list when the store raises
ExecuteQuery(store_ok) == IF store_ok THEN "rows" ELSE "empty"

\* execute_fallback_tool for the tools of this model (list_products reads no parameter)
ExecuteFallbackTool(tool_name, params, store_ok) ==
    IF ~IsToolSupported(tool_name)
    THEN [status |-> "error", results |-> "none", queried |-> FALSE]
    ELSE [status |-> "success", results |-> ExecuteQuery(store_ok), queried |-> TRUE]

(***************************************************************************)
(* MCPOrchestrator                                                         *)
(***************************************************************************)
\* ExecutionResult, with what the call did on the way (invoke_calls .. last)
NoResult ==
    [op |-> "none", raised |-> "none", returned |-> FALSE,
     success |-> FALSE, mode |-> "none", retries |-> 0, error |-> "none",
     payload |-> "none", tool |-> "none", mode_at_call |-> "none",
     invoke_calls |-> 0, cache_hit |-> FALSE, requests |-> 0, fails |-> 0,
     last |-> "none", fallback_calls |-> 0, store_ok |-> FALSE,
     scheduled |-> FALSE, probe |-> FALSE, elapsed |-> 0,
     status |-> "none", results |-> "none", params |-> <<>>,
     use_cache |-> FALSE, at |-> 0, sleeps |-> <<>>,
     server |-> "none", check |-> "none", old_status |-> "none",
     old_failures |-> 0, log |-> <<>>, created |-> FALSE, awaited |-> 0,
     text |-> <<>>, error_type |-> "none", retry_count |-> 0,
     retry_func |-> "None", fallback_func |-> "None", result |-> "None"]

\* a routing that sends every mode to the remote client
UsesPrimaryInEveryMode(mode) == mode \in ExecutionMode

\* line 162
UsesPrimary(mode) == mode \in {"PRIMARY", "RECOVERY"}

\* a failed probe that leaves the mode as the attempt set it
StayInRecovery(handler) == "RECOVERY"

\* the mode left when the primary path is given up
FailoverMode(handler) == IF handler THEN "FALLBACK" ELSE "DEGRADED"

\* _record_mode_change
RecordModeChange(history, mode) ==
    LET h == Append(history, mode)
    IN IF Len(h) > mode_history_limit
       THEN SubSeq(h, Len(h) - mode_history_limit + 1, Len(h))
       ELSE h

\* _switch_mode on the pair (mode, history)
SwitchMode(mh, new_mode) ==
    IF new_mode # mh.mode
    THEN [mode |-> new_mode, history |-> RecordModeChange(mh.history, new_mode)]
    ELSE mh

\* _try_primary_execution from iteration `attempt` on: invoke_tool is called with
\* server_type in the place of use_cache; a returned value is a success, whatever
\* it holds, and only a raised exception counts as a failed attempt.
RECURSIVE TryPrimaryLoop(_, _, _, _, _, _, _)
TryPrimaryLoop(attempt, retries, tool_name, params, server_type, outs, acc) ==
    IF attempt >= recovery_strategy_max_retries
    THEN [acc EXCEPT !.success = FALSE, !.mode = "PRIMARY", !.retries = retries,
                     !.payload = "none"]
    ELSE
    LET r == InvokeTool(tool_name, params, server_type,
                        SubSeq(outs, acc.requests + 1, Len(outs)), acc.cs, now)
        a1 == [acc EXCEPT !.invoke_calls = @ + 1,
                          !.requests = @ + r.requests,
                          !.fails = @ + r.fails,
                          !.last = IF r.requests > 0 THEN r.last ELSE @,
                          !.cache_hit = r.cache_hit,
                          !.cs = r.cs]
    IN IF r.raised = "none"
       THEN [a1 EXCEPT !.success = TRUE, !.mode = "PRIMARY", !.retries = retries,
                       !.payload = r.status, !.error = "none"]
       ELSE TryPrimaryLoop(attempt + 1, retries + 1, tool_name, params, server_type,
                           outs, [a1 EXCEPT !.error = r.raised])

\* a primary attempt whose result carries the mode of the fallback path
TryPrimaryExecutionAsFallback(tool_name, params, server_type, outs, cs) ==
    [TryPrimaryLoop(0, 0, tool_name, params, server_type, outs,
        [success |-> FALSE, mode |-> "PRIMARY", retries |-> 0, error |-> "none",
         payload |-> "none", invoke_calls |-> 0, requests |-> 0, fails |-> 0,
         last |-> "none", cache_hit |-> FALSE, cs |-> cs])
     EXCEPT !.mode = "FALLBACK"]

TryPrimaryExecution(tool_name, params, server_type, outs, cs) ==
    TryPrimaryLoop(0, 0, tool_name, params, server_type, outs,
        [success |-> FALSE, mode |-> "PRIMARY", retries |-> 0, error |-> "none",
         payload |-> "none", invoke_calls |-> 0, requests |-> 0, fails |-> 0,
         last |-> "none", cache_hit |-> FALSE, cs |-> cs])

\* _can_use_fallback: the orchestrator asks the handler for supports_tool
CanUseFallback(tool_name) ==
    IF ~fallback_handler
    THEN [raised |-> "none", value |-> FALSE]
    ELSE IF "supports_tool" \in FallbackHandlerAttributes
         THEN [raised |-> "none", value |-> IsToolSupported(tool_name)]
         ELSE [raised |-> "AttributeError", value |-> FALSE]

\* _try_fallback_execution: the orchestrator asks the handler for execute_fallback;
\* whatever the handler returns is a success, an exception is a failure.
TryFallbackExecution(tool_name, params, previous_retries, store_ok) ==
    IF "execute_fallback" \in FallbackHandlerAttributes
    THEN LET f == ExecuteFallbackTool(tool_name, params, store_ok)
         IN [success |-> TRUE, mode |-> "FALLBACK", retries |-> previous_retries,
             error |-> "none", payload |-> f.status, fallback_calls |-> 1]
    ELSE [success |-> FALSE, mode |-> "FALLBACK", retries |-> previous_retries,
          error |-> "AttributeError", payload |-> "none", fallback_calls |-> 0]

\* _should_attempt_recovery
ShouldAttemptRecovery ==
    IF last_recovery_attempt = NoTime
    THEN TRUE
    ELSE now - last_recovery_attempt > recovery_window

\* _test_primary_connection: get_available_tools is called with one argument and
\* its value awaited; it is a plain method returning a list, so the await raises
\* TypeError even where the call binds.  Any exception makes the probe False.
TestPrimaryConnection(tools_nonempty) ==
    LET called == IF Binds(get_available_tools_params, 1) THEN "list" ELSE "TypeError"
        awaited == IF called = "list" THEN "TypeError" ELSE called
    IN IF awaited = "TypeError" THEN FALSE ELSE tools_nonempty

\* the counters _handle_successful_execution updates for result.mode
BumpModeMetrics(mm, mode) ==
    [mm EXCEPT ![mode] = [executions |-> @.executions + 1,
                          successes |-> @.successes + 1]]

\* the members of ErrorType
ErrorTypes == {"CONNECTION_ERROR", "TIMEOUT_ERROR", "VALIDATION_ERROR",
               "RATE_LIMIT_ERROR", "AUTHENTICATION_ERROR", "SERVER_ERROR",
               "UNKNOWN_ERROR"}

RecoveryAction == {"RETRY", "RETRY_WITH_BACKOFF", "FALLBACK", "CIRCUIT_BREAK",
                   "REFRESH_AUTH", "CLEAR_CACHE", "RESTART_CONNECTION", "FAIL"}

\* the servers a monitor may be given (add_server); the state of a server is
\* kept and probed apart from every other, and one is followed
ServerNames == {"primary"}

\* a name that is not a key of self.servers
NoServer ==
    [status |-> "UNKNOWN", consecutive_failures |-> 0, available_tools |-> 0,
     client |-> FALSE, monitored |-> FALSE]

(***************************************************************************)
(* Initial state: the objects as their constructors leave them              *)
(***************************************************************************)
Init ==
    /\ fallback_handler \in BOOLEAN
    /\ current_mode = "PRIMARY"
    /\ consecutive_errors = 0
    /\ recovery_attempts = 0
    /\ last_recovery_attempt = NoTime
    /\ mode_history = <<>>
    /\ mode_metrics = [m \in ExecutionMode |-> [executions |-> 0, successes |-> 0]]
    /\ recovery_tasks = 0
    /\ initialized = FALSE
    /\ client_state = "DISCONNECTED"
    /\ client_pool = 0
    /\ pool_index = 0
    /\ tools_loaded = FALSE
    /\ metrics = [t \in Tools |-> [execution_count |-> 0, success_count |-> 0,
                                   failure_count |-> 0]]
    /\ cache = [k \in CacheKeys |-> NoEntry]
    /\ cb_state = "CLOSED"
    /\ failure_count = 0
    /\ success_count = 0
    /\ last_failure_time = NoTime
    /\ batch_phase = "unbuilt"
    /\ max_concurrent = 0
    /\ execution_stats = [total_batches |-> 0, total_tools |-> 0, failures |-> 0]
    /\ tool_calls = <<>>
    /\ parallel = FALSE
    /\ stop_on_error = FALSE
    /\ task = <<>>
    /\ results = <<>>
    /\ returned = <<>>
    /\ invoke_outcome = <<>>
    /\ monitoring = FALSE
    /\ monitor_task = 0
    /\ loop_tasks = <<>>
    /\ stop_waiting = {}
    /\ pending_checks = {}
    /\ servers = [n \in ServerNames |-> NoServer]
    /\ status_change_callbacks = 0
    /\ failure_callbacks = 0
    /\ recovery_callbacks = 0
    /\ total_checks = 0
    /\ stops = 0
    /\ error_counts = [et \in ErrorTypes |-> 0]
    /\ recovery_success_counts = [ra \in RecoveryAction |-> 0]
    /\ recovery_failure_counts = [ra \in RecoveryAction |-> 0]
    /\ now = 0
    /\ calls = 0
    /\ failed_streak = 0
    /\ cb_failed_streak = 0
    /\ cb_half_open_successes = 0
    /\ res = NoResult

(***************************************************************************)
(* MCPOrchestrator.initialize                                              *)
(***************************************************************************)
\* outs: the answers to the manifest GETs; manifest_nonempty: the manifest of a
\* 200 answer names at least one tool.
Initialize(outs, manifest_nonempty) ==
    /\ ~initialized
    /\ initialized' = TRUE
    /\ LET pool1 == client_pool + PoolSize     \* EnhancedMCPClient.initialize
           l == LoadTools(outs, pool1, pool_index)
           loaded == tools_loaded \/ (l.ok /\ manifest_nonempty)
           \* start_monitoring is called with (primary_url, dynamic_url)
           started == Binds(start_monitoring_params, 2)
           probe == TestPrimaryConnection(loaded)
           mode1 == IF probe THEN "PRIMARY" ELSE FailoverMode(fallback_handler)
       IN /\ client_pool' = pool1
          /\ pool_index' = l.pool_index
          /\ tools_loaded' = loaded
          /\ client_state' = IF l.ok THEN "CONNECTED" ELSE "ERROR"
          /\ IF started
             THEN /\ current_mode' = mode1
                  /\ mode_history' = RecordModeChange(mode_history, mode1)
             ELSE \* TypeError, caught at line 137: return False
                  UNCHANGED <<current_mode, mode_history>>
          /\ res' = [NoResult EXCEPT !.op = "initialize", !.returned = started,
                                     !.mode_at_call = current_mode,
                                     !.requests = l.requests, !.probe = loaded]
    /\ UNCHANGED <<batch_vars, monitor_vars, recovery_vars>>
    /\ UNCHANGED <<fallback_handler, consecutive_errors, recovery_attempts,
                   last_recovery_attempt, mode_metrics, recovery_tasks,
                   metrics, cache, cb_vars, ghost_vars, now>>

(***************************************************************************)
(* MCPOrchestrator.execute_tool                                            *)
(***************************************************************************)
\* _handle_successful_execution(result) for a result of mode `mode`
HandleSuccessfulExecution(mode) ==
    /\ consecutive_errors' = 0
    /\ mode_metrics' = BumpModeMetrics(mode_metrics, mode)
    /\ recovery_tasks' = IF mode = "FALLBACK" /\ ShouldAttemptRecovery
                         THEN recovery_tasks + 1
                         ELSE recovery_tasks

\* the remote was contacted and its last answer was a failure
RemoteFailed(p) ==
    p.requests > 0 /\ p.last \in {"http4xx", "http5xx", "request_error", "exception"}

\* outs: what the remote does with the requests of this call; store_ok: the local
\* store answers a query.  The application calls initialize() at start-up, before
\* it hands the orchestrator to anyone (main.py:102).
ExecuteTool(tool_name, params, outs, store_ok) ==
    /\ initialized
    /\ calls' = calls + 1
    /\ \E mode0 \in {current_mode} :
       \E p \in {IF UsesPrimary(mode0)
                 THEN TryPrimaryExecution(tool_name, params, "primary", outs,
                         [pool |-> client_pool, pool_index |-> pool_index,
                          metrics |-> metrics, cache |-> cache])
                 ELSE [success |-> FALSE, mode |-> "none", retries |-> 0,
                       error |-> "none", payload |-> "none", invoke_calls |-> 0,
                       requests |-> 0, fails |-> 0, last |-> "none",
                       cache_hit |-> FALSE,
                       cs |-> [pool |-> client_pool, pool_index |-> pool_index,
                               metrics |-> metrics, cache |-> cache]]} :
       \E base \in {[NoResult EXCEPT !.op = "execute_tool", !.tool = tool_name,
                                     !.mode_at_call = mode0,
                                     !.invoke_calls = p.invoke_calls,
                                     !.cache_hit = p.cache_hit,
                                     !.requests = p.requests, !.fails = p.fails,
                                     !.last = p.last, !.retries = p.retries]} :
          /\ client_pool' = p.cs.pool
          /\ pool_index' = p.cs.pool_index
          /\ metrics' = p.cs.metrics
          /\ cache' = p.cs.cache
          /\ failed_streak' =
                IF UsesPrimary(mode0) /\ RemoteFailed(p)
                THEN IF failed_streak < error_threshold THEN failed_streak + 1
                     ELSE failed_streak
                ELSE IF UsesPrimary(mode0) /\ p.success THEN 0 ELSE failed_streak
          /\ IF UsesPrimary(mode0) /\ p.success
             THEN \* lines 166-168
                  /\ HandleSuccessfulExecution(p.mode)
                  /\ res' = [base EXCEPT !.returned = TRUE, !.success = TRUE,
                                         !.mode = p.mode, !.payload = p.payload]
             ELSE \* line 172: self.fallback_handler and self._can_use_fallback(...)
                  \E can \in {CanUseFallback(tool_name)} :
                  IF fallback_handler /\ can.raised # "none"
                  THEN \* the exception leaves execute_tool
                       /\ res' = [base EXCEPT !.raised = can.raised,
                                              !.store_ok = store_ok]
                       /\ UNCHANGED <<consecutive_errors, mode_metrics, recovery_tasks>>
                  ELSE IF fallback_handler /\ can.value
                  THEN \E f \in {TryFallbackExecution(tool_name, params, p.retries,
                                                      store_ok)} :
                       IF f.success
                       THEN /\ HandleSuccessfulExecution(f.mode)
                            /\ res' = [base EXCEPT !.returned = TRUE,
                                          !.success = TRUE, !.mode = f.mode,
                                          !.payload = f.payload,
                                          !.fallback_calls = f.fallback_calls,
                                          !.store_ok = store_ok,
                                          !.scheduled = ShouldAttemptRecovery]
                       ELSE /\ res' = [base EXCEPT !.returned = TRUE,
                                          !.success = FALSE, !.mode = "DEGRADED",
                                          !.error = "All execution methods failed",
                                          !.fallback_calls = f.fallback_calls,
                                          !.store_ok = store_ok]
                            /\ UNCHANGED <<consecutive_errors, mode_metrics,
                                           recovery_tasks>>
                  ELSE /\ res' = [base EXCEPT !.returned = TRUE,
                                     !.success = FALSE, !.mode = "DEGRADED",
                                     !.error = "All execution methods failed",
                                     !.store_ok = store_ok]
                       /\ UNCHANGED <<consecutive_errors, mode_metrics, recovery_tasks>>
    /\ UNCHANGED <<batch_vars, monitor_vars, recovery_vars>>
    /\ UNCHANGED <<fallback_handler, current_mode, recovery_attempts,
                   last_recovery_attempt, mode_history, initialized,
                   client_state, tools_loaded, cb_vars,
                   cb_failed_streak, cb_half_open_successes, now>>

(***************************************************************************)
(* The monitor callbacks of MCPOrchestrator and the recovery task          *)
(***************************************************************************)
Servers == {"primary_url", "dynamic_url"}

\* _handle_failure(server, error)
HandleFailure(server) ==
    /\ consecutive_errors < MaxErrors
    /\ consecutive_errors' = consecutive_errors + 1
    /\ LET mh == [mode |-> current_mode, history |-> mode_history]
           mh1 == IF consecutive_errors + 1 >= error_threshold
                     /\ current_mode = "PRIMARY"
                  THEN SwitchMode(mh, FailoverMode(fallback_handler))
                  ELSE mh
       IN /\ current_mode' = mh1.mode
          /\ mode_history' = mh1.history
    /\ res' = [NoResult EXCEPT !.op = "handle_failure", !.returned = TRUE,
                               !.mode_at_call = current_mode]
    /\ UNCHANGED <<batch_vars, monitor_vars, recovery_vars>>
    /\ UNCHANGED <<fallback_handler, recovery_attempts, last_recovery_attempt,
                   mode_metrics, recovery_tasks, initialized, client_vars,
                   cb_vars, ghost_vars, now>>

\* _handle_recovery(server)
HandleRecovery(server) ==
    /\ recovery_attempts + recovery_tasks < MaxRecoveries
    /\ LET schedule == server = "primary_url" /\ current_mode # "PRIMARY"
       IN /\ recovery_tasks' = IF schedule THEN recovery_tasks + 1 ELSE recovery_tasks
          /\ res' = [NoResult EXCEPT !.op = "handle_recovery", !.returned = TRUE,
                                     !.mode_at_call = current_mode,
                                     !.scheduled = schedule]
    /\ UNCHANGED <<batch_vars, monitor_vars, recovery_vars>>
    /\ UNCHANGED <<fallback_handler, current_mode, consecutive_errors,
                   recovery_attempts, last_recovery_attempt, mode_history,
                   mode_metrics, initialized, client_vars, cb_vars, ghost_vars, now>>

\* One run of an _attempt_recovery task.  Nothing in it suspends: the probe
\* raises before it awaits anything, so the task runs to its end in one step.
AttemptRecovery ==
    /\ recovery_tasks > 0
    /\ recovery_tasks' = recovery_tasks - 1
    /\ IF current_mode = "PRIMARY"
       THEN /\ res' = [NoResult EXCEPT !.op = "attempt_recovery", !.returned = TRUE,
                                       !.mode_at_call = current_mode]
            /\ UNCHANGED <<current_mode, mode_history, recovery_attempts,
                           last_recovery_attempt>>
       ELSE LET mh0 == [mode |-> current_mode, history |-> mode_history]
                mh1 == SwitchMode(mh0, "RECOVERY")
                probe == TestPrimaryConnection(tools_loaded)
                mh2 == IF probe
                       THEN SwitchMode(mh1, "PRIMARY")
                       ELSE SwitchMode(mh1, FailoverMode(fallback_handler))
            IN /\ last_recovery_attempt' = now
               /\ recovery_attempts' = IF probe THEN 0 ELSE recovery_attempts + 1
               /\ current_mode' = mh2.mode
               /\ mode_history' = mh2.history
               /\ res' = [NoResult EXCEPT !.op = "attempt_recovery",
                                          !.returned = TRUE,
                                          !.mode_at_call = current_mode,
                                          !.mode = "RECOVERY",
                                          !.probe = tools_loaded]
    /\ UNCHANGED <<batch_vars, monitor_vars, recovery_vars>>
    /\ UNCHANGED <<fallback_handler, consecutive_errors, mode_metrics, initialized,
                   client_vars, cb_vars, ghost_vars, now>>

\* time passes
Tick ==
    /\ now + ClockStep <= MaxTime
    /\ now' = now + ClockStep
    /\ UNCHANGED <<batch_vars, monitor_vars, recovery_vars>>
    /\ UNCHANGED <<orch_vars, client_vars, cb_vars, ghost_vars, res>>

Startup ==
    \E outs \in ManifestAnswers, nonempty \in BOOLEAN : Initialize(outs, nonempty)

\* a tool call while the monitor callbacks and recovery tasks run
FailoverCall ==
    /\ calls < MaxFailoverCalls
    /\ \E t \in Tools, p \in Params, outs \in InvokeAnswers, store_ok \in BOOLEAN :
            ExecuteTool(t, p, outs, store_ok)

MonitorFailure == \E s \in Servers : HandleFailure(s)

MonitorRecovery == \E s \in Servers : HandleRecovery(s)

Next ==
    \/ Startup
    \/ FailoverCall
    \/ MonitorFailure
    \/ MonitorRecovery
    \/ AttemptRecovery
    \/ Tick

Spec == Init /\ [][Next]_vars

\* Tool calls one after the other, with no monitor event in between.
Call ==
    /\ calls < MaxCalls
    /\ \E t \in Tools, p \in Params, outs \in InvokeAnswers, store_ok \in BOOLEAN :
            ExecuteTool(t, p, outs, store_ok)

NextCalls ==
    \/ Startup
    \/ Call
    \/ Tick

SpecCalls == Init /\ [][NextCalls]_vars

(***************************************************************************)
(* CircuitBreaker                                                          *)
(***************************************************************************)
\* the breaker as a record b: state, failure_count, success_count, last_failure_time
Breaker == [state |-> cb_state, failure_count |-> failure_count,
            success_count |-> success_count, last_failure_time |-> last_failure_time]

\* _open that keeps the successes counted so far
OpenBreakerKeepingSuccesses(b) == [b EXCEPT !.state = "OPEN", !.failure_count = 0]

\* _open
OpenBreaker(b) == [b EXCEPT !.state = "OPEN", !.failure_count = 0, !.success_count = 0]

\* _close
CloseBreaker(b) == [b EXCEPT !.state = "CLOSED", !.failure_count = 0, !.success_count = 0]

\* _half_open
HalfOpenBreaker(b) == [b EXCEPT !.state = "HALF_OPEN", !.success_count = 0]

\* CircuitBreaker._should_attempt_recovery at time t
BreakerShouldAttemptRecovery(b, t) ==
    IF b.last_failure_time = NoTime
    THEN TRUE
    ELSE t - b.last_failure_time > recovery_timeout

\* call_succeeded closing one success late
BreakerCallSucceededLate(b) ==
    IF b.state = "HALF_OPEN"
    THEN LET b1 == [b EXCEPT !.success_count = @ + 1]
         IN IF b1.success_count > success_threshold THEN CloseBreaker(b1) ELSE b1
    ELSE IF b.state = "CLOSED"
    THEN [b EXCEPT !.failure_count = 0]
    ELSE b

\* call_succeeded that leaves the failures counted so far
BreakerCallSucceededKeepingFailures(b) ==
    IF b.state = "HALF_OPEN"
    THEN LET b1 == [b EXCEPT !.success_count = @ + 1]
         IN IF b1.success_count >= success_threshold THEN CloseBreaker(b1) ELSE b1
    ELSE b

\* call_succeeded that closes an open breaker
BreakerCallSucceededClosing(b) ==
    IF b.state = "HALF_OPEN"
    THEN LET b1 == [b EXCEPT !.success_count = @ + 1]
         IN IF b1.success_count >= success_threshold THEN CloseBreaker(b1) ELSE b1
    ELSE CloseBreaker(b)

\* call_succeeded
BreakerCallSucceeded(b) ==
    IF b.state = "HALF_OPEN"
    THEN LET b1 == [b EXCEPT !.success_count = @ + 1]
         IN IF b1.success_count >= success_threshold THEN CloseBreaker(b1) ELSE b1
    ELSE IF b.state = "CLOSED"
    THEN [b EXCEPT !.failure_count = 0]
    ELSE b

\* call_failed opening one failure late
BreakerCallFailedLate(b, t) ==
    LET b0 == [b EXCEPT !.last_failure_time = t]
    IN IF b0.state = "CLOSED"
       THEN LET b1 == [b0 EXCEPT !.failure_count = @ + 1]
            IN IF b1.failure_count > failure_threshold THEN OpenBreaker(b1) ELSE b1
       ELSE IF b0.state = "HALF_OPEN"
       THEN OpenBreaker(b0)
       ELSE b0

\* call_failed at time t
BreakerCallFailed(b, t) ==
    LET b0 == [b EXCEPT !.last_failure_time = t]
    IN IF b0.state = "CLOSED"
       THEN LET b1 == [b0 EXCEPT !.failure_count = @ + 1]
            IN IF b1.failure_count >= failure_threshold THEN OpenBreaker(b1) ELSE b1
       ELSE IF b0.state = "HALF_OPEN"
       THEN OpenBreaker(b0)
       ELSE b0

\* can_execute at time t: the answer and the breaker after it
BreakerCanExecute(b, t) ==
    IF b.state = "CLOSED"
    THEN [allowed |-> TRUE, breaker |-> b]
    ELSE IF b.state = "OPEN"
    THEN IF BreakerShouldAttemptRecovery(b, t)
         THEN [allowed |-> TRUE, breaker |-> HalfOpenBreaker(b)]
         ELSE [allowed |-> FALSE, breaker |-> b]
    ELSE [allowed |-> TRUE, breaker |-> b]

SetBreaker(b) ==
    /\ cb_state' = b.state
    /\ failure_count' = b.failure_count
    /\ success_count' = b.success_count
    /\ last_failure_time' = b.last_failure_time

\* minutes since the last failure, 0 when there was none
SinceLastFailure == IF last_failure_time = NoTime THEN 0 ELSE now - last_failure_time

CallSucceeded ==
    /\ SetBreaker(BreakerCallSucceeded(Breaker))
    /\ cb_failed_streak' = 0
    /\ cb_half_open_successes' =
          IF cb_state = "HALF_OPEN" /\ cb_half_open_successes < success_threshold
          THEN cb_half_open_successes + 1
          ELSE cb_half_open_successes
    /\ res' = [NoResult EXCEPT !.op = "call_succeeded", !.returned = TRUE,
                               !.mode_at_call = cb_state,
                               !.elapsed = SinceLastFailure]
    /\ UNCHANGED <<batch_vars, monitor_vars, recovery_vars>>
    /\ UNCHANGED <<orch_vars, client_vars, calls, failed_streak, now>>

CallFailed ==
    /\ SetBreaker(BreakerCallFailed(Breaker, now))
    /\ cb_failed_streak' = IF cb_failed_streak < failure_threshold
                           THEN cb_failed_streak + 1
                           ELSE cb_failed_streak
    /\ res' = [NoResult EXCEPT !.op = "call_failed", !.returned = TRUE,
                               !.mode_at_call = cb_state,
                               !.elapsed = SinceLastFailure]
    /\ UNCHANGED <<batch_vars, monitor_vars, recovery_vars>>
    /\ UNCHANGED <<orch_vars, client_vars, calls, failed_streak,
                   cb_half_open_successes, now>>

CanExecute ==
    /\ \E c \in {BreakerCanExecute(Breaker, now)} :
          /\ SetBreaker(c.breaker)
          /\ cb_half_open_successes' =
                IF cb_state = "OPEN" /\ c.breaker.state = "HALF_OPEN"
                THEN 0
                ELSE cb_half_open_successes
          /\ res' = [NoResult EXCEPT !.op = "can_execute", !.returned = c.allowed,
                                     !.mode_at_call = cb_state,
                                     !.elapsed = SinceLastFailure]
    /\ UNCHANGED <<batch_vars, monitor_vars, recovery_vars>>
    /\ UNCHANGED <<orch_vars, client_vars, calls, failed_streak, cb_failed_streak, now>>

\* time passes, a minute at a time
TickBreaker ==
    /\ now < MaxBreakerTime
    /\ now' = now + 1
    /\ UNCHANGED <<batch_vars, monitor_vars, recovery_vars>>
    /\ UNCHANGED <<orch_vars, client_vars, cb_vars, ghost_vars, res>>

NextBreaker ==
    \/ CallSucceeded
    \/ CallFailed
    \/ CanExecute
    \/ TickBreaker

SpecBreaker == Init /\ [][NextBreaker]_vars

(***************************************************************************)
(* EnhancedMCPClient used on its own                                       *)
(***************************************************************************)
\* What the remote does with the requests of one invoke_tool call: any answer
\* to each of the max_retries requests the call can make.  An answer that is
\* not retried ends the call, so what would follow it is never asked for and
\* is written as a repetition of it.
ClientAnswers ==
    {a \in [1..max_retries -> Outcome] :
        \A k \in 1..(max_retries - 1) : ~Retried(a[k]) => a[k + 1] = a[k]}

\* a remote that answers every request of a call the same way
UniformAnswers == {[k \in 1..max_retries |-> o] : o \in Outcome}

\* the values callers pass as use_cache
UseCache == {"True", "False"}

\* EnhancedMCPClient.initialize
ClientInitialize(outs, manifest_nonempty) ==
    /\ client_pool = 0
    /\ LET pool1 == client_pool + PoolSize
           l == LoadTools(outs, pool1, pool_index)
       IN /\ client_pool' = pool1
          /\ pool_index' = l.pool_index
          /\ tools_loaded' = (tools_loaded \/ (l.ok /\ manifest_nonempty))
          /\ client_state' = IF l.ok THEN "CONNECTED" ELSE "ERROR"
          /\ res' = [NoResult EXCEPT !.op = "client_initialize", !.returned = l.ok,
                                     !.requests = l.requests, !.at = now]
    /\ UNCHANGED <<batch_vars, monitor_vars, recovery_vars>>
    /\ UNCHANGED <<orch_vars, metrics, cache, cb_vars, ghost_vars, now>>

\* EnhancedMCPClient.invoke_tool(tool_name, params, use_cache), called directly
Invoke(tool_name, params, use_cache, outs) ==
    /\ \E r \in {InvokeTool(tool_name, params, use_cache, outs,
                            [pool |-> client_pool, pool_index |-> pool_index,
                             metrics |-> metrics, cache |-> cache], now)} :
          /\ pool_index' = r.cs.pool_index
          /\ metrics' = r.cs.metrics
          /\ cache' = r.cs.cache
          /\ res' = [NoResult EXCEPT !.op = "invoke_tool", !.raised = r.raised,
                        !.returned = (r.raised = "none"), !.tool = tool_name,
                        !.params = params, !.use_cache = Truthy(use_cache),
                        !.status = r.status, !.results = r.results,
                        !.error = r.error, !.cache_hit = r.cache_hit,
                        !.requests = r.requests, !.fails = r.fails,
                        !.last = r.last, !.sleeps = r.sleeps, !.at = now]
    /\ calls' = calls + 1
    /\ UNCHANGED <<batch_vars, monitor_vars, recovery_vars>>
    /\ UNCHANGED <<orch_vars, client_state, client_pool, tools_loaded, cb_vars,
                   failed_streak, cb_failed_streak, cb_half_open_successes, now>>

ClientStartup ==
    \E outs \in ManifestAnswers, nonempty \in BOOLEAN : ClientInitialize(outs, nonempty)

\* the client built on its own, with no orchestrator around it
InitClient == Init /\ fallback_handler = FALSE

\* calls one after the other, each against a remote that answers uniformly
ClientCall ==
    /\ calls < MaxInvokes
    /\ \E t \in Tools, p \in ClientParams, u \in UseCache, outs \in UniformAnswers :
            Invoke(t, p, u, outs)

NextClient ==
    \/ ClientStartup
    \/ ClientCall
    \/ Tick

SpecClient == InitClient /\ [][NextClient]_vars

\* a call against a remote that answers each request in any way
RetriedCall ==
    /\ calls < MaxRetriedCalls
    /\ \E t \in Tools, p \in ClientParams, u \in UseCache, outs \in ClientAnswers :
            Invoke(t, p, u, outs)

NextRetry ==
    \/ ClientStartup
    \/ RetriedCall
    \/ Tick

SpecRetry == InitClient /\ [][NextRetry]_vars

\* A tool call while ErrorRecoveryManager keeps a breaker for the tool: the
\* call is execute_tool as it is, since neither the orchestrator nor the client
\* holds a reference to a breaker (can_execute has no caller).
GatedCall ==
    /\ calls < MaxGatedCalls
    /\ \E t \in Tools, p \in Params, outs \in InvokeAnswers, store_ok \in BOOLEAN :
            ExecuteTool(t, p, outs, store_ok)

NextGate ==
    \/ Startup
    \/ CallFailed
    \/ CanExecute
    \/ GatedCall
    \/ TickBreaker

SpecGate == Init /\ [][NextGate]_vars

(***************************************************************************)
(* BatchExecutor (src/adk-mcp-app/src/mcp_connection_monitor.py)           *)
(*                                                                         *)
(* batch_phase is "unbuilt" before the constructor ran, "idle" until       *)
(* execute_batch is called, "running" while it is suspended, and           *)
(* "returned" or "raised" once it has handed control back.  The calls of   *)
(* a batch are named by their position: an entry of a results list records *)
(* in its field call the position of the call it belongs to (the call that *)
(* returned it, or the one whose tool_name it was built with).             *)
(***************************************************************************)
\* What client.invoke_tool does for one call of a batch: it returns a result
\* with status "success", returns one with status "error", or raises.
BatchOutcome == {"success", "error", "raised"}

\* results = [None] * len(tool_calls)
NoneSlot == [status |-> "None", error |-> "none", call |-> 0]

\* the result invoke_tool returned for call i
InvokeResult(i, o) ==
    [status |-> o, error |-> IF o = "error" THEN "invoke" ELSE "none", call |-> i]

\* {'status': 'error', 'error': str(e), 'tool_name': tool_call['tool_name']}
ExceptionResult(i, e) == [status |-> "error", error |-> e, call |-> i]

\* {'status': 'error', 'error': 'Skipped due to previous error', 'tool_name': ...}
SkippedResult(i) == [status |-> "error", error |-> "skipped", call |-> i]

\* while len(results) < len(tool_calls): results.append(skipped)
SkipRemaining(rs, n) ==
    rs \o [k \in 1..(n - Len(rs)) |-> SkippedResult(Len(rs) + k)]

\* sum(1 for r in results if r.get('status') == 'error'): None has no get
CountFailures(rs) ==
    IF \E i \in 1..Len(rs) : rs[i] = NoneSlot
    THEN [raised |-> "AttributeError", failures |-> 0]
    ELSE [raised |-> "none",
          failures |-> Cardinality({i \in 1..Len(rs) : rs[i].status = "error"})]

\* BatchExecutor.__init__
NewBatchExecutor(mc) ==
    /\ batch_phase = "unbuilt"
    /\ batch_phase' = "idle"
    /\ max_concurrent' = mc
    /\ execution_stats' = [total_batches |-> 0, total_tools |-> 0, failures |-> 0]
    /\ UNCHANGED <<tool_calls, parallel, stop_on_error, task, results, returned,
                   invoke_outcome>>
    /\ UNCHANGED <<orch_vars, client_vars, cb_vars, monitor_vars, recovery_vars, ghost_vars, now, res>>

\* The end of execute_batch, once _execute_parallel or _execute_sequential
\* handed it the list rs: the failures are counted and the list is returned.
FinishBatch(rs, stats) ==
    \E c \in {CountFailures(rs)} :
        /\ batch_phase' = IF c.raised = "none" THEN "returned" ELSE "raised"
        /\ execution_stats' = [stats EXCEPT !.failures = @ + c.failures]
        /\ returned' = IF c.raised = "none" THEN rs ELSE <<>>

\* execute_batch up to its first suspension.  With an empty list neither mode
\* suspends (gather of no task is done at once) and the call returns.
ExecuteBatch(n, par, soe) ==
    /\ batch_phase = "idle"
    /\ tool_calls' = [i \in 1..n |-> i]
    /\ parallel' = par
    /\ stop_on_error' = soe
    /\ task' = [i \in 1..n |-> IF par THEN "waiting" ELSE "unused"]
    /\ invoke_outcome' = [i \in 1..n |-> "none"]
    /\ results' = IF par THEN [i \in 1..n |-> NoneSlot] ELSE <<>>
    /\ LET stats == [execution_stats EXCEPT !.total_batches = @ + 1,
                                            !.total_tools = @ + n]
       IN  IF n = 0
           THEN FinishBatch(<<>>, stats)
           ELSE /\ batch_phase' = "running"
                /\ execution_stats' = stats
                /\ returned' = <<>>
    /\ UNCHANGED max_concurrent
    /\ UNCHANGED <<orch_vars, client_vars, cb_vars, monitor_vars, recovery_vars, ghost_vars, now, res>>

\* One iteration of the loop of _execute_sequential: the next call is made
\* and its result appended.  After a break, or after the last call, the
\* list is filled up and execute_batch finishes in the same step.
SequentialStep(o) ==
    /\ batch_phase = "running"
    /\ ~parallel
    /\ LET i == Len(results) + 1
           r == IF o = "raised" THEN ExceptionResult(i, "exception")
                                ELSE InvokeResult(i, o)
           rs == Append(results, r)
           stop == stop_on_error /\ o # "success"
           filled == SkipRemaining(rs, Len(tool_calls))
       IN  /\ invoke_outcome' = [invoke_outcome EXCEPT ![i] = o]
           /\ IF stop \/ i = Len(tool_calls)
              THEN /\ results' = filled
                   /\ FinishBatch(filled, execution_stats)
              ELSE /\ results' = rs
                   /\ UNCHANGED <<batch_phase, execution_stats, returned>>
    /\ UNCHANGED <<max_concurrent, tool_calls, parallel, stop_on_error, task>>
    /\ UNCHANGED <<orch_vars, client_vars, cb_vars, monitor_vars, recovery_vars, ghost_vars, now, res>>

\* the invoke_tool calls of the batch that were started and have not finished
InFlight == Cardinality({i \in DOMAIN task : task[i] = "inflight"})

SemaphoreIgnored == TRUE

\* asyncio.Semaphore(self.max_concurrent): a permit is left
SemaphoreFree == InFlight < max_concurrent

\* gather(*tasks, return_exceptions=not stop_on_error)
return_exceptions == ~stop_on_error

\* A task enters "async with semaphore" and calls invoke_tool.  The tasks
\* run in the order gather created them and the semaphore wakes its waiters
\* in the order they came, so the waiting task of least index is the next.
\* gather cancels no task when it raises: the tasks go on after execute_batch
\* has handed control back.
TaskStart ==
    /\ parallel
    /\ SemaphoreFree
    /\ \E i \in DOMAIN task :
            /\ task[i] = "waiting"
            /\ \A j \in 1..(i - 1) : task[j] # "waiting"
            /\ task' = [task EXCEPT ![i] = "inflight"]
            /\ invoke_outcome' = [invoke_outcome EXCEPT ![i] = "pending"]
    /\ UNCHANGED <<batch_phase, max_concurrent, execution_stats, tool_calls, parallel,
                   stop_on_error, results, returned>>
    /\ UNCHANGED <<orch_vars, client_vars, cb_vars, monitor_vars, recovery_vars, ghost_vars, now, res>>

\* The invoke_tool call of a task finishes: the rest of execute_with_semaphore.
\* With stop_on_error an error result raises inside the try block, so the
\* except clause replaces the slot by its own error result and raises again.
TaskFinish(i, o) ==
    /\ parallel
    /\ task[i] = "inflight"
    /\ task' = [task EXCEPT ![i] = IF stop_on_error /\ o # "success" THEN "failed"
                                                                     ELSE "done"]
    /\ results' = [results EXCEPT ![i] =
                        CASE o = "raised" -> ExceptionResult(i, "exception")
                          [] o = "error" /\ stop_on_error -> ExceptionResult(i, "tool_failed")
                          [] OTHER -> InvokeResult(i, o)]
    /\ invoke_outcome' = [invoke_outcome EXCEPT ![i] = o]
    /\ UNCHANGED <<batch_phase, max_concurrent, execution_stats, tool_calls, parallel,
                   stop_on_error, returned>>
    /\ UNCHANGED <<orch_vars, client_vars, cb_vars, monitor_vars, recovery_vars, ghost_vars, now, res>>

\* gather hands control back to _execute_parallel: every task is over, or a
\* task raised and return_exceptions is false.  _execute_parallel swallows the
\* exception and returns results, and execute_batch finishes in the same step.
GatherReturn ==
    /\ batch_phase = "running"
    /\ parallel
    /\ \/ \A i \in DOMAIN task : task[i] \in {"done", "failed"}
       \/ ~return_exceptions /\ \E i \in DOMAIN task : task[i] = "failed"
    /\ FinishBatch(results, execution_stats)
    /\ UNCHANGED <<max_concurrent, tool_calls, parallel, stop_on_error, task, results,
                   invoke_outcome>>
    /\ UNCHANGED <<orch_vars, client_vars, cb_vars, monitor_vars, recovery_vars, ghost_vars, now, res>>

BuildExecutor == \E mc \in 1..MaxConcurrent : NewBatchExecutor(mc)

StartBatch == \E n \in 0..MaxBatch, par \in BOOLEAN, soe \in BOOLEAN : ExecuteBatch(n, par, soe)

SequentialCall == \E o \in BatchOutcome : SequentialStep(o)

TaskComplete == \E i \in DOMAIN task, o \in BatchOutcome : TaskFinish(i, o)

NextBatch ==
    \/ BuildExecutor
    \/ StartBatch
    \/ SequentialCall
    \/ TaskStart
    \/ TaskComplete
    \/ GatherReturn

SpecBatch == Init /\ [][NextBatch]_vars

\* Every invoke_tool call ends (bounded retries, a timeout on every request)
\* and the event loop runs every task that is ready.
SpecBatchFair == SpecBatch /\ WF_vars(TaskStart) /\ WF_vars(TaskComplete) /\ WF_vars(GatherReturn)

(***************************************************************************)
(* MCPConnectionMonitor (src/adk-mcp-app/src/mcp_connection_monitor.py)    *)
(*                                                                         *)
(* A monitor loop task is "ready" (created, or back at the loop test),     *)
(* "checking" (suspended in _check_all_servers), "sleeping", "cancelling"  *)
(* (cancel() was called on it and it has not run since) or "done".  A      *)
(* callback is any callable: it may raise on any call.  The length of a    *)
(* callback list stands for the list.  The servers and the callbacks are   *)
(* registered before the first start_monitoring.  The failure total, the   *)
(* response times and the timestamps are statistics no code path of the    *)
(* monitor reads back, and are left out.                                   *)
(***************************************************************************)
HealthStatus == {"HEALTHY", "DEGRADED", "UNHEALTHY", "UNKNOWN"}

\* what client.health_check() does: connection_test is 'success', it is
\* something else, or the call raises
HealthOutcome == {"success", "failed", "raised"}

\* ServerHealth(name=name, url=url) with _client set by add_server
NewServerHealth(client) ==
    [status |-> "UNKNOWN", consecutive_failures |-> 0, available_tools |-> 0,
     client |-> client, monitored |-> TRUE]

UnhealthyAbove(failures) == failures > monitor_failure_threshold

\* line 173
UnhealthyFrom(failures) == failures >= monitor_failure_threshold

\* _handle_check_failure
HandleCheckFailure(server) ==
    LET failures == server.consecutive_failures + 1
    IN  [server EXCEPT !.consecutive_failures = failures,
                       !.status = IF UnhealthyFrom(failures) THEN "UNHEALTHY"
                                                             ELSE "DEGRADED"]

\* _check_server_health, lines 133-160: the server record after the probe;
\* tools is the tools_loaded of a successful health check
ProbedServer(server, outcome, tools) ==
    IF outcome = "success"
    THEN [server EXCEPT !.consecutive_failures = 0,
                        !.available_tools = tools,
                        !.status = IF tools # 0 THEN "HEALTHY" ELSE "DEGRADED"]
    ELSE HandleCheckFailure(server)

\* One loop over a callback list: the calls made, in order.  raises[i] tells
\* whether callback i raised.
RunCallbacksUntilRaise(kind, n, raises) ==
    LET upto == IF \E i \in 1..n : raises[i]
                THEN CHOOSE i \in 1..n : raises[i] /\ \A j \in 1..(i - 1) : ~raises[j]
                ELSE n
    IN  [i \in 1..upto |-> [kind |-> kind, index |-> i, raised |-> raises[i]]]

\* lines 183-187, 191-195, 199-203: each call sits in its own try block
RunCallbacks(kind, n, raises) ==
    [i \in 1..n |-> [kind |-> kind, index |-> i, raised |-> raises[i]]]

\* _notify_status_change: the callbacks called, in order
NotifyStatusChange(old_status, new_status, raises_status, raises_other) ==
    RunCallbacks("status_change", status_change_callbacks, raises_status)
    \o (IF new_status = "UNHEALTHY" /\ old_status # "UNHEALTHY"
        THEN RunCallbacks("failure", failure_callbacks, raises_other)
        ELSE IF new_status = "HEALTHY" /\ old_status # "HEALTHY"
        THEN RunCallbacks("recovery", recovery_callbacks, raises_other)
        ELSE <<>>)

\* the keys of self.servers
Monitored == {n \in ServerNames : servers[n].monitored}

\* the loop tasks that can still run a probe cycle
LiveLoops == {k \in DOMAIN loop_tasks : loop_tasks[k] \notin {"cancelling", "done"}}

\* add_server
AddServer(name, client) ==
    /\ loop_tasks = <<>>
    /\ name \notin Monitored
    /\ servers' = [servers EXCEPT ![name] = NewServerHealth(client)]
    /\ UNCHANGED <<monitoring, monitor_task, loop_tasks, stop_waiting, pending_checks,
                   status_change_callbacks, failure_callbacks, recovery_callbacks,
                   total_checks, stops>>
    /\ UNCHANGED <<orch_vars, client_vars, cb_vars, batch_vars, recovery_vars, ghost_vars, now, res>>

\* add_status_change_callback, add_failure_callback, add_recovery_callback
AddCallback(kind) ==
    /\ loop_tasks = <<>>
    /\ CASE kind = "status_change" ->
                /\ status_change_callbacks < MaxCallbacks
                /\ status_change_callbacks' = status_change_callbacks + 1
                /\ UNCHANGED <<failure_callbacks, recovery_callbacks>>
         [] kind = "failure" ->
                /\ failure_callbacks < MaxCallbacks
                /\ failure_callbacks' = failure_callbacks + 1
                /\ UNCHANGED <<status_change_callbacks, recovery_callbacks>>
         [] kind = "recovery" ->
                /\ recovery_callbacks < MaxCallbacks
                /\ recovery_callbacks' = recovery_callbacks + 1
                /\ UNCHANGED <<status_change_callbacks, failure_callbacks>>
    /\ UNCHANGED <<monitoring, monitor_task, loop_tasks, stop_waiting, pending_checks,
                   servers, total_checks, stops>>
    /\ UNCHANGED <<orch_vars, client_vars, cb_vars, batch_vars, recovery_vars, ghost_vars, now, res>>

StartsAnyway(flag) == FALSE

\* line 76
AlreadyMonitoring(flag) == flag

\* start_monitoring
StartMonitoring ==
    /\ IF AlreadyMonitoring(monitoring)
       THEN /\ UNCHANGED <<monitoring, monitor_task, loop_tasks>>
            /\ res' = [NoResult EXCEPT !.op = "start_monitoring", !.returned = TRUE]
       ELSE /\ Len(loop_tasks) < MaxLoops
            /\ monitoring' = TRUE
            /\ loop_tasks' = Append(loop_tasks, "ready")
            /\ monitor_task' = Len(loop_tasks) + 1
            /\ res' = [NoResult EXCEPT !.op = "start_monitoring", !.returned = TRUE,
                                       !.created = TRUE]
    /\ UNCHANGED <<stop_waiting, pending_checks, servers, status_change_callbacks,
                   failure_callbacks, recovery_callbacks, total_checks,
                   stops>>
    /\ UNCHANGED <<orch_vars, client_vars, cb_vars, batch_vars, recovery_vars, ghost_vars, now>>

\* stop_monitoring up to "await self.monitor_task".  Awaiting a task that is
\* over does not suspend: the call returns in the same step.
StopMonitoring ==
    /\ stops < MaxStops
    /\ stops' = stops + 1
    /\ monitoring' = FALSE
    /\ IF monitor_task = 0
       THEN /\ UNCHANGED <<loop_tasks, stop_waiting>>
            /\ res' = [NoResult EXCEPT !.op = "stop_monitoring", !.returned = TRUE]
       ELSE IF loop_tasks[monitor_task] = "done"
       THEN /\ UNCHANGED <<loop_tasks, stop_waiting>>
            /\ res' = [NoResult EXCEPT !.op = "stop_monitoring", !.returned = TRUE,
                                       !.awaited = monitor_task]
       ELSE /\ loop_tasks' = [loop_tasks EXCEPT ![monitor_task] = "cancelling"]
            /\ stop_waiting' = stop_waiting \cup {monitor_task}
            /\ res' = [NoResult EXCEPT !.op = "stop_monitoring"]
    /\ UNCHANGED <<monitor_task, pending_checks, servers, status_change_callbacks,
                   failure_callbacks, recovery_callbacks, total_checks>>
    /\ UNCHANGED <<orch_vars, client_vars, cb_vars, batch_vars, recovery_vars, ghost_vars, now>>

\* the task a stop_monitoring call awaits is over: the call returns
StopReturns(k) ==
    /\ k \in stop_waiting
    /\ loop_tasks[k] = "done"
    /\ stop_waiting' = stop_waiting \ {k}
    /\ res' = [NoResult EXCEPT !.op = "stop_monitoring", !.returned = TRUE,
                               !.awaited = k]
    /\ UNCHANGED <<monitoring, monitor_task, loop_tasks, pending_checks, servers,
                   status_change_callbacks, failure_callbacks, recovery_callbacks,
                   total_checks, stops>>
    /\ UNCHANGED <<orch_vars, client_vars, cb_vars, batch_vars, recovery_vars, ghost_vars, now>>

\* _monitor_loop at "while self.monitoring", then _check_all_servers up to
\* the gather of the checks (no gather when there is no server)
MonitorLoop(k) ==
    /\ loop_tasks[k] \in {"ready", "sleeping"}
    /\ IF monitoring
       THEN /\ total_checks < MaxChecks
            /\ total_checks' = total_checks + 1
            /\ pending_checks' = Monitored
            /\ loop_tasks' = [loop_tasks EXCEPT ![k] = IF Monitored = {}
                                                       THEN "sleeping" ELSE "checking"]
       ELSE /\ loop_tasks' = [loop_tasks EXCEPT ![k] = "done"]
            /\ UNCHANGED <<total_checks, pending_checks>>
    /\ UNCHANGED <<monitoring, monitor_task, stop_waiting, servers,
                   status_change_callbacks, failure_callbacks, recovery_callbacks, stops>>
    /\ UNCHANGED <<orch_vars, client_vars, cb_vars, batch_vars, recovery_vars, ghost_vars, now, res>>

\* _check_server_health for one server of the cycle, with the callbacks it
\* notifies.  Without a client there is no probe and nobody is notified.
CheckServerHealth(name, outcome, tools, raises_status, raises_other) ==
    /\ \E k \in DOMAIN loop_tasks : loop_tasks[k] = "checking"
    /\ name \in pending_checks
    /\ pending_checks' = pending_checks \ {name}
    /\ LET server == servers[name]
           probed == ProbedServer(server, outcome, tools)
           log == IF probed.status # server.status
                  THEN NotifyStatusChange(server.status, probed.status,
                                          raises_status, raises_other)
                  ELSE <<>>
       IN  IF ~server.client
           THEN /\ servers' = [servers EXCEPT ![name].status = "UNKNOWN"]
                /\ res' = [NoResult EXCEPT !.op = "check_server_health",
                                           !.returned = TRUE, !.server = name]
           ELSE /\ servers' = [servers EXCEPT ![name] = probed]
                /\ res' = [NoResult EXCEPT !.op = "check_server_health",
                                           !.returned = TRUE, !.server = name,
                                           !.check = outcome,
                                           !.old_status = server.status,
                                           !.old_failures = server.consecutive_failures,
                                           !.log = log]
    /\ UNCHANGED <<monitoring, monitor_task, loop_tasks, stop_waiting,
                   status_change_callbacks, failure_callbacks, recovery_callbacks,
                   total_checks, stops>>
    /\ UNCHANGED <<orch_vars, client_vars, cb_vars, batch_vars, recovery_vars, ghost_vars, now>>

\* every check of the cycle is over: asyncio.sleep(self.check_interval)
MonitorSleep(k) ==
    /\ loop_tasks[k] = "checking"
    /\ pending_checks = {}
    /\ loop_tasks' = [loop_tasks EXCEPT ![k] = "sleeping"]
    /\ UNCHANGED <<monitoring, monitor_task, stop_waiting, pending_checks, servers,
                   status_change_callbacks, failure_callbacks, recovery_callbacks,
                   total_checks, stops>>
    /\ UNCHANGED <<orch_vars, client_vars, cb_vars, batch_vars, recovery_vars, ghost_vars, now, res>>

\* the cancelled task runs: CancelledError ends the loop and the checks of
\* its gather
MonitorCancelled(k) ==
    /\ loop_tasks[k] = "cancelling"
    /\ loop_tasks' = [loop_tasks EXCEPT ![k] = "done"]
    /\ pending_checks' = {}
    /\ UNCHANGED <<monitoring, monitor_task, stop_waiting, servers,
                   status_change_callbacks, failure_callbacks, recovery_callbacks,
                   total_checks, stops>>
    /\ UNCHANGED <<orch_vars, client_vars, cb_vars, batch_vars, recovery_vars, ghost_vars, now, res>>

AddServers == \E name \in ServerNames, client \in BOOLEAN : AddServer(name, client)

AddCallbacks == \E kind \in {"status_change", "failure", "recovery"} : AddCallback(kind)

LoopStep == \E k \in DOMAIN loop_tasks : MonitorLoop(k) \/ MonitorSleep(k)

LoopCancelled == \E k \in DOMAIN loop_tasks : MonitorCancelled(k)

\* the health checks told apart: the outcome and, for a successful one, its
\* tools_loaded
HealthResults ==
    {<<"success", 1>>, <<"success", 0>>, <<"failed", 0>>, <<"raised", 0>>}

Probe ==
    \E name \in pending_checks, h \in HealthResults,
       raises_status \in [1..status_change_callbacks -> BOOLEAN],
       raises_other \in [1..(IF failure_callbacks > recovery_callbacks
                             THEN failure_callbacks ELSE recovery_callbacks) -> BOOLEAN] :
        CheckServerHealth(name, h[1], h[2], raises_status, raises_other)

StopReturn == \E k \in DOMAIN loop_tasks : StopReturns(k)

\* a monitor built without a fallback handler beside it
InitMonitor == Init /\ fallback_handler = FALSE

\* the probe cycles of a monitor that is started and left running
NextMonitor ==
    \/ AddServers
    \/ AddCallbacks
    \/ StartMonitoring
    \/ LoopStep
    \/ Probe

SpecMonitor == InitMonitor /\ [][NextMonitor]_vars

\* a monitor without callbacks that is started and stopped at any time
NextLifecycle ==
    \/ AddServers
    \/ StartMonitoring
    \/ StopMonitoring
    \/ StopReturn
    \/ LoopStep
    \/ LoopCancelled
    \/ Probe

SpecLifecycle == InitMonitor /\ [][NextLifecycle]_vars

\* The monitor an MCPOrchestrator builds for itself.  _setup_monitor_callbacks
\* assigns its handlers to monitor.on_status_change, on_failure and
\* on_recovery; _notify_status_change reads the three callback lists, to
\* which nothing appends, so they are empty as the constructor left them.
\* initialize does not start the monitor (its start_monitoring call does not
\* bind) and adds no server: the caller does both on orchestrator.monitor.
\* The handlers stay callable by anyone who holds the orchestrator.
NextWatch ==
    \/ AddServers
    \/ StartMonitoring
    \/ LoopStep
    \/ Probe
    \/ MonitorFailure

SpecWatch == Init /\ [][NextWatch]_vars

(***************************************************************************)
(* ErrorRecoveryManager (error_recovery.py)                                *)
(***************************************************************************)
\* A text is a sequence of one-character strings.
UpperCase == <<"A", "B", "C", "D", "E", "F", "G", "H", "I", "J", "K", "L", "M",
              "N", "O", "P", "Q", "R", "S", "T", "U", "V", "W", "X", "Y", "Z">>

LowerCase == <<"a", "b", "c", "d", "e", "f", "g", "h", "i", "j", "k", "l", "m",
              "n", "o", "p", "q", "r", "s", "t", "u", "v", "w", "x", "y", "z">>

\* str.lower on one character
LowerChar(c) ==
    IF \E i \in 1..Len(UpperCase) : UpperCase[i] = c
    THEN LowerCase[CHOOSE i \in 1..Len(UpperCase) : UpperCase[i] = c]
    ELSE c

\* a text taken as it is written
SameText(s) == s

\* str(error).lower()
LowerText(s) == [i \in 1..Len(s) |-> LowerChar(s[i])]

\* term in error_str
Occurs(term, text) ==
    \E i \in 1..(Len(text) - Len(term) + 1) :
        SubSeq(text, i, i + Len(term) - 1) = term

ErrorType == <<"CONNECTION_ERROR", "TIMEOUT_ERROR", "VALIDATION_ERROR",
               "RATE_LIMIT_ERROR", "AUTHENTICATION_ERROR", "SERVER_ERROR",
               "UNKNOWN_ERROR">>

\* the terms of the six branches of classify_error, in the order of the branches
ClassifyTerms ==
    <<<<<<"c", "o", "n", "n", "e", "c", "t", "i", "o", "n">>,
       <<"c", "o", "n", "n", "e", "c", "t">>,
       <<"n", "e", "t", "w", "o", "r", "k">>>>,
      <<<<"t", "i", "m", "e", "o", "u", "t">>,
       <<"t", "i", "m", "e", "d", " ", "o", "u", "t">>>>,
      <<<<"v", "a", "l", "i", "d", "a", "t", "i", "o", "n">>,
       <<"i", "n", "v", "a", "l", "i", "d">>,
       <<"m", "i", "s", "s", "i", "n", "g", " ", "r", "e", "q", "u", "i", "r", "e", "d">>>>,
      <<<<"r", "a", "t", "e", " ", "l", "i", "m", "i", "t">>,
       <<"t", "o", "o", " ", "m", "a", "n", "y", " ", "r", "e", "q", "u", "e", "s", "t", "s">>,
       <<"4", "2", "9">>>>,
      <<<<"u", "n", "a", "u", "t", "h", "o", "r", "i", "z", "e", "d">>,
       <<"a", "u", "t", "h", "e", "n", "t", "i", "c", "a", "t", "i", "o", "n">>,
       <<"4", "0", "1">>,
       <<"4", "0", "3">>>>,
      <<<<"s", "e", "r", "v", "e", "r", " ", "e", "r", "r", "o", "r">>,
       <<"5", "0", "0">>,
       <<"5", "0", "2">>,
       <<"5", "0", "3">>>>>>

\* any(term in error_str for term in [...]) of branch k
AnyTermOccurs(k, text) ==
    \E j \in 1..Len(ClassifyTerms[k]) : Occurs(ClassifyTerms[k][j], text)

\* classify_error: the if/elif chain over the lower-cased text
ClassifyError(error) ==
    LET error_str == LowerText(error)
        hits == {k \in 1..Len(ClassifyTerms) : AnyTermOccurs(k, error_str)}
    IN IF hits = {}
       THEN "UNKNOWN_ERROR"
       ELSE ErrorType[CHOOSE k \in hits : \A h \in hits : k <= h]

\* words that error messages are put together from
Words ==
    {<<"C", "o", "n", "n", "e", "c", "t", "i", "o", "n">>,
     <<"d", "i", "s", "c", "o", "n", "n", "e", "c", "t", "e", "d">>,
     <<"N", "E", "T", "W", "O", "R", "K">>,
     <<"T", "i", "m", "e", "o", "u", "t">>,
     <<"T", "i", "m", "e", "d">>,
     <<"o", "u", "t">>,
     <<"I", "n", "v", "a", "l", "i", "d">>,
     <<"M", "i", "s", "s", "i", "n", "g">>,
     <<"r", "e", "q", "u", "i", "r", "e", "d">>,
     <<"R", "a", "t", "e">>,
     <<"L", "i", "m", "i", "t">>,
     <<"4", "2", "9">>,
     <<"U", "n", "a", "u", "t", "h", "o", "r", "i", "z", "e", "d">>,
     <<"4", "0", "3">>,
     <<"S", "e", "r", "v", "e", "r">>,
     <<"E", "R", "R", "O", "R">>,
     <<"5", "0", "3">>,
     <<"f", "a", "i", "l", "e", "d">>,
     <<"r", "e", "f", "u", "s", "e", "d">>}

RECURSIVE JoinWords(_)
\* " ".join(words)
JoinWords(ws) ==
    IF Len(ws) = 0 THEN <<>>
    ELSE IF Len(ws) = 1 THEN ws[1]
    ELSE ws[1] \o <<" ">> \o JoinWords(Tail(ws))

\* the error messages followed: up to MaxWords words separated by blanks
ErrorTexts ==
    {JoinWords(ws) : ws \in UNION {[1..n -> Words] : n \in 0..MaxWords}}

\* one call of classify_error; it reads nothing but its argument, so one
\* call is followed
ClassifyErrorCall ==
    /\ res = NoResult
    /\ \E text \in ErrorTexts :
          res' = [NoResult EXCEPT !.op = "classify_error", !.returned = TRUE,
                                  !.text = text,
                                  !.error_type = ClassifyError(text)]
    /\ UNCHANGED <<batch_vars, monitor_vars, recovery_vars>>
    /\ UNCHANGED <<orch_vars, client_vars, cb_vars, ghost_vars, now>>

NextClassify == ClassifyErrorCall

SpecClassify == Init /\ [][NextClassify]_vars

\* RecoveryPlan with the defaults of the dataclass (lines 53-61); delays in seconds
RecoveryPlan(primary, fallbacks, retries, delay, factor) ==
    [primary_action |-> primary, fallback_actions |-> fallbacks,
     max_retries |-> retries, retry_delay |-> delay, backoff_factor |-> factor]

\* _initialize_strategies
error_strategies ==
    [et \in ErrorTypes |->
        CASE et = "CONNECTION_ERROR" ->
                RecoveryPlan("RESTART_CONNECTION", <<"RETRY_WITH_BACKOFF", "FALLBACK">>, 5, 2, 2)
          [] et = "TIMEOUT_ERROR" ->
                RecoveryPlan("RETRY_WITH_BACKOFF", <<"FALLBACK">>, 3, 1, 2)
          [] et = "VALIDATION_ERROR" ->
                RecoveryPlan("FAIL", <<>>, 0, 1, 2)
          [] et = "RATE_LIMIT_ERROR" ->
                RecoveryPlan("RETRY_WITH_BACKOFF", <<"CIRCUIT_BREAK">>, 3, 5, 3)
          [] et = "AUTHENTICATION_ERROR" ->
                RecoveryPlan("REFRESH_AUTH", <<"FAIL">>, 2, 1, 2)
          [] et = "SERVER_ERROR" ->
                RecoveryPlan("CIRCUIT_BREAK", <<"FALLBACK">>, 3, 1, 2)
          [] OTHER ->
                RecoveryPlan("RETRY", <<"FALLBACK", "FAIL">>, 2, 1, 2)]

\* a plan lookup that gives every error type the plan of UNKNOWN_ERROR
UnknownPlanOf(error_type) == error_strategies["UNKNOWN_ERROR"]

\* self.error_strategies.get(error_type, self.error_strategies[UNKNOWN_ERROR])
PlanOf(error_type) ==
    IF error_type \in DOMAIN error_strategies
    THEN error_strategies[error_type]
    ELSE error_strategies["UNKNOWN_ERROR"]

\* what retry_func and fallback_func may be: not given, a coroutine function
\* that returns, one that raises
Callables == {"None", "returns", "raises"}

\* the tool_name of an ErrorContext: None or the name of a tool
ToolNames == {"None", "add_order_item"}

RECURSIVE Power(_, _)
\* base ** exponent
Power(base, exponent) ==
    IF exponent = 0 THEN 1 ELSE base * Power(base, exponent - 1)

\* what one recovery action did: nothing called, nothing slept, no breaker touched
NoActionResult(action, breaker) ==
    [action |-> action, success |-> FALSE, result |-> "None", called |-> "none",
     slept |-> <<>>, touched |-> FALSE, breaker |-> breaker]

\* try: result = await func(); return True, result / except Exception: return False, None
AwaitCallable(r, name, func) ==
    IF func = "returns"
    THEN [r EXCEPT !.called = name, !.success = TRUE, !.result = name]
    ELSE [r EXCEPT !.called = name]

\* _execute_recovery_action at time t, the breaker being that of the tool
ExecuteRecoveryAction(action, error_context, recovery_plan, retry_func, fallback_func, breaker, t) ==
    LET r == NoActionResult(action, breaker)
        may_retry == /\ retry_func # "None"
                     /\ error_context.retry_count < recovery_plan.max_retries
    IN CASE action = "RETRY" /\ may_retry ->
               AwaitCallable(r, "retry_func", retry_func)
         [] action = "RETRY_WITH_BACKOFF" /\ may_retry ->
               LET delay == recovery_plan.retry_delay *
                                Power(recovery_plan.backoff_factor,
                                      error_context.retry_count)
               IN AwaitCallable([r EXCEPT !.slept = <<delay>>],
                                "retry_func", retry_func)
         [] action = "FALLBACK" /\ fallback_func # "None" ->
               AwaitCallable(r, "fallback_func", fallback_func)
         [] action = "CIRCUIT_BREAK" /\ error_context.tool_name # "None" ->
               [r EXCEPT !.touched = TRUE, !.breaker = BreakerCallFailed(breaker, t)]
         [] OTHER -> r

\* the actions of a plan with the fallback actions put first
FallbacksFirst(recovery_plan) ==
    recovery_plan.fallback_actions \o <<recovery_plan.primary_action>>

\* the actions of a plan in the order _execute_recovery_plan tries them
PlanActions(recovery_plan) ==
    <<recovery_plan.primary_action>> \o recovery_plan.fallback_actions

RECURSIVE RunActions(_, _, _, _, _, _, _)
\* the loop of _execute_recovery_plan over the actions left
RunActions(actions, error_context, recovery_plan, retry_func, fallback_func, breaker, t) ==
    IF actions = <<>>
    THEN [success |-> FALSE, result |-> "None", log |-> <<>>, breaker |-> breaker]
    ELSE LET r == ExecuteRecoveryAction(Head(actions), error_context, recovery_plan,
                                        retry_func, fallback_func, breaker, t)
             entry == [action |-> r.action, success |-> r.success,
                       result |-> r.result, called |-> r.called,
                       slept |-> r.slept, touched |-> r.touched]
         IN IF r.success
            THEN [success |-> TRUE, result |-> r.result, log |-> <<entry>>,
                  breaker |-> r.breaker]
            ELSE LET rest == RunActions(Tail(actions), error_context, recovery_plan,
                                        retry_func, fallback_func, r.breaker, t)
                 IN [rest EXCEPT !.log = <<entry>> \o @]

\* _execute_recovery_plan
ExecuteRecoveryPlan(error_context, recovery_plan, retry_func, fallback_func, breaker, t) ==
    RunActions(PlanActions(recovery_plan), error_context, recovery_plan,
               retry_func, fallback_func, breaker, t)

\* handle_error. The breaker followed is the one of the tool named by the
\* error context. Each backoff sleep is shorter than one unit of now. No
\* callback is registered (register_callback); _execute_callbacks catches
\* what a callback raises and does not change what handle_error returns.
HandleError ==
    /\ calls < MaxHandled
    /\ \E error_type \in ErrorTypes, tool_name \in ToolNames,
          retry_count \in 0..MaxRetryCount,
          retry_func \in Callables, fallback_func \in Callables :
          \E recovery_plan \in {PlanOf(error_type)} :
          \E r \in {ExecuteRecoveryPlan(
                        [error_type |-> error_type, tool_name |-> tool_name,
                         retry_count |-> retry_count],
                        recovery_plan, retry_func, fallback_func, Breaker, now)} :
             /\ error_counts' = [error_counts EXCEPT ![error_type] = @ + 1]
             /\ SetBreaker(r.breaker)
             /\ cb_failed_streak' =
                   IF r.breaker # Breaker /\ cb_failed_streak < failure_threshold
                   THEN cb_failed_streak + 1
                   ELSE cb_failed_streak
             /\ recovery_success_counts' =
                   IF r.success
                   THEN [recovery_success_counts EXCEPT
                            ![recovery_plan.primary_action] = @ + 1]
                   ELSE recovery_success_counts
             /\ recovery_failure_counts' =
                   IF r.success
                   THEN recovery_failure_counts
                   ELSE [recovery_failure_counts EXCEPT
                            ![recovery_plan.primary_action] = @ + 1]
             /\ res' = [NoResult EXCEPT !.op = "handle_error", !.returned = TRUE,
                                        !.success = r.success, !.result = r.result,
                                        !.error_type = error_type,
                                        !.tool = tool_name,
                                        !.retry_count = retry_count,
                                        !.retry_func = retry_func,
                                        !.fallback_func = fallback_func,
                                        !.log = r.log,
                                        !.mode_at_call = cb_state]
    /\ calls' = calls + 1
    /\ UNCHANGED <<batch_vars, monitor_vars>>
    /\ UNCHANGED <<orch_vars, client_vars, failed_streak, cb_half_open_successes, now>>

NextRecovery ==
    \/ HandleError
    \/ CanExecute
    \/ TickBreaker

SpecRecovery == Init /\ [][NextRecovery]_vars

(***************************************************************************)
(* ToolValidator (mcp_fallback_handler.py)                                 *)
(***************************************************************************)
\* Python values: kind is the name of the type, n the number (in tenths for
\* a float), s the characters of a string (and of "inf" for float('inf'))
IntValue(n) == [kind |-> "int", n |-> n, s |-> <<>>]

StrValue(s) == [kind |-> "str", n |-> 0, s |-> s]

FloatValue(tenths) == [kind |-> "float", n |-> tenths, s |-> <<>>]

Infinity == [kind |-> "float", n |-> 0, s |-> <<"i", "n", "f">>]

NoneValue == [kind |-> "NoneType", n |-> 0, s |-> <<>>]

TrueValue == [kind |-> "bool", n |-> 1, s |-> <<>>]

\* what a dict holds for a name that is not one of its keys
Absent == [kind |-> "absent", n |-> 0, s |-> <<>>]

\* the parameter names of tool_schemas, and one that no schema declares
AllParamNames ==
    {"name_pattern", "limit", "customer_id", "order_id", "product_id",
     "quantity", "new_status", "start_date", "end_date", "currency",
     "natural_language_query", "max_results", "extra"}

\* error_message = None
NoMessage == [kind |-> "None", param |-> "none", expected |-> "none"]

DigitChars == <<"0", "1", "2", "3", "4", "5", "6", "7", "8", "9">>

IsDigit(c) == \E i \in 1..Len(DigitChars) : DigitChars[i] = c

DigitValue(c) == (CHOOSE i \in 1..Len(DigitChars) : DigitChars[i] = c) - 1

RECURSIVE DecimalValue(_)
\* the number a sequence of digits writes
DecimalValue(ds) ==
    IF ds = <<>> THEN 0
    ELSE DecimalValue(SubSeq(ds, 1, Len(ds) - 1)) * 10 + DigitValue(ds[Len(ds)])

RECURSIVE DecimalDigits(_)
\* str(n) for n >= 0
DecimalDigits(n) ==
    IF n < 10 THEN <<DigitChars[n + 1]>>
    ELSE DecimalDigits(n \div 10) \o <<DigitChars[(n % 10) + 1]>>

\* str(n) of an int
IntStr(n) == IF n < 0 THEN <<"-">> \o DecimalDigits(0 - n) ELSE DecimalDigits(n)

\* str(x) of a float given in tenths
FloatStr(tenths) ==
    IF tenths < 0
    THEN <<"-">> \o DecimalDigits((0 - tenths) \div 10) \o <<".">>
                 \o <<DigitChars[((0 - tenths) % 10) + 1]>>
    ELSE DecimalDigits(tenths \div 10) \o <<".">> \o <<DigitChars[(tenths % 10) + 1]>>

\* int(s) of a string: an optional sign and digits (the blanks and
\* underscores int() also accepts do not occur in the values followed)
ParseInt(s) ==
    LET signed == s # <<>> /\ s[1] \in {"-", "+"}
        body == IF signed THEN Tail(s) ELSE s
    IN IF body # <<>> /\ \A i \in 1..Len(body) : IsDigit(body[i])
       THEN [ok |-> TRUE,
             n |-> IF signed /\ s[1] = "-"
                   THEN 0 - DecimalValue(body) ELSE DecimalValue(body)]
       ELSE [ok |-> FALSE, n |-> 0]

\* what a conversion gave: the value, or the exception it raised
Converted(v) == [outcome |-> "ok", value |-> v]

ConversionRaised(exception) == [outcome |-> exception, value |-> Absent]

\* int(param_value)
ConvertToInt(v) ==
    CASE v.kind = "str" ->
            LET p == ParseInt(v.s)
            IN IF p.ok THEN Converted(IntValue(p.n)) ELSE ConversionRaised("ValueError")
      [] v.kind = "float" ->
            IF v.s # <<>>
            THEN ConversionRaised("OverflowError")
            ELSE Converted(IntValue(IF v.n < 0 THEN 0 - ((0 - v.n) \div 10)
                                               ELSE v.n \div 10))
      [] v.kind = "NoneType" -> ConversionRaised("TypeError")
      [] OTHER -> Converted(IntValue(v.n))

\* str(param_value)
ConvertToStr(v) ==
    CASE v.kind = "int" -> Converted(StrValue(IntStr(v.n)))
      [] v.kind = "bool" -> Converted(StrValue(IF v.n = 1 THEN <<"T", "r", "u", "e">> ELSE <<"F", "a", "l", "s", "e">>))
      [] v.kind = "float" ->
            Converted(StrValue(IF v.s # <<>> THEN v.s ELSE FloatStr(v.n)))
      [] v.kind = "NoneType" -> Converted(StrValue(<<"N", "o", "n", "e">>))
      [] OTHER -> Converted(v)

\* isinstance(param_value, expected_type); bool is a subclass of int
IsInstance(v, expected_type) ==
    \/ expected_type = "int" /\ v.kind \in {"int", "bool"}
    \/ expected_type = "str" /\ v.kind = "str"

\* lines 403-417: the value is kept when it is an instance, converted otherwise
TypeConversion(v, expected_type) ==
    IF IsInstance(v, expected_type) THEN Converted(v)
    ELSE IF expected_type = "int" THEN ConvertToInt(v)
    ELSE ConvertToStr(v)

\* the patterns of _validate_iso_date; "#" stands for \d, and each pattern is
\* anchored at both ends (the strings followed hold no line break)
IsoPatterns ==
    {<<"#", "#", "#", "#", "-", "#", "#", "-", "#", "#", "T", "#", "#", ":", "#", "#", ":", "#", "#">>,
     <<"#", "#", "#", "#", "-", "#", "#", "-", "#", "#", "T", "#", "#", ":", "#", "#", ":", "#", "#", "Z">>,
     <<"#", "#", "#", "#", "-", "#", "#", "-", "#", "#", " ", "#", "#", ":", "#", "#", ":", "#", "#">>,
     <<"#", "#", "#", "#", "-", "#", "#", "-", "#", "#">>}

MatchesPattern(pattern, s) ==
    /\ Len(s) = Len(pattern)
    /\ \A i \in 1..Len(pattern) :
          IF pattern[i] = "#" THEN IsDigit(s[i]) ELSE s[i] = pattern[i]

\* _validate_iso_date
ValidateIsoDate(date_str) == \E pattern \in IsoPatterns : MatchesPattern(pattern, date_str)

\* the statuses update_order_status accepts (line 325)
OrderStatuses ==
    {<<"p", "e", "n", "d", "i", "n", "g">>, <<"p", "a", "i", "d">>,
     <<"s", "h", "i", "p", "p", "e", "d">>,
     <<"c", "a", "n", "c", "e", "l", "l", "e", "d">>}

NoTypes == [p \in {} |-> "none"]

NoDefaults == [p \in {} |-> Absent]

\* __init__: the schema of each tool; validators lists the keys of the
\* 'validators' dict in their order
tool_schemas ==
    [search_customers |->
        [required |-> <<>>, optional |-> <<"name_pattern", "limit">>,
         types |-> [name_pattern |-> "str", limit |-> "int"],
         defaults |-> [name_pattern |-> StrValue(<<"%">>), limit |-> IntValue(10)],
         validators |-> <<"limit">>],
     get_customer_orders |->
        [required |-> <<"customer_id">>, optional |-> <<>>,
         types |-> [customer_id |-> "int"], defaults |-> NoDefaults,
         validators |-> <<"customer_id">>],
     get_customer_value_by_status |->
        [required |-> <<"customer_id">>, optional |-> <<>>,
         types |-> [customer_id |-> "int"], defaults |-> NoDefaults,
         validators |-> <<"customer_id">>],
     list_products |->
        [required |-> <<>>, optional |-> <<>>, types |-> NoTypes,
         defaults |-> NoDefaults, validators |-> <<>>],
     create_order |->
        [required |-> <<"customer_id">>, optional |-> <<>>,
         types |-> [customer_id |-> "int"], defaults |-> NoDefaults,
         validators |-> <<"customer_id">>],
     add_order_item |->
        [required |-> <<"order_id", "product_id", "quantity">>, optional |-> <<>>,
         types |-> [order_id |-> "int", product_id |-> "int", quantity |-> "int"],
         defaults |-> NoDefaults,
         validators |-> <<"order_id", "product_id", "quantity">>],
     update_order_status |->
        [required |-> <<"order_id", "new_status">>, optional |-> <<>>,
         types |-> [order_id |-> "int", new_status |-> "str"],
         defaults |-> NoDefaults,
         validators |-> <<"order_id", "new_status">>],
     sales_by_month |->
        [required |-> <<>>, optional |-> <<"start_date", "end_date", "currency">>,
         types |-> [start_date |-> "str", end_date |-> "str", currency |-> "str"],
         defaults |-> [currency |-> StrValue(<<"V", "N", "D">>)],
         validators |-> <<"start_date", "end_date">>],
     execute_dynamic_sql |->
        [required |-> <<"natural_language_query">>, optional |-> <<"max_results">>,
         types |-> [natural_language_query |-> "str", max_results |-> "int"],
         defaults |-> [max_results |-> IntValue(100)],
         validators |-> <<"max_results">>]]

\* a quantity validator that asks for more than one
QuantityAboveOne(x) == x.n > 1

\* lambda x: x >= 1 (line 313)
QuantityValidator(x) == x.n >= 1

\* the lambdas of the 'validators' dicts; a parameter name has the same
\* lambda in every schema that validates it
ValidatorHolds(param_name, x) ==
    CASE param_name \in {"limit", "max_results"} -> 1 <= x.n /\ x.n <= 1000
      [] param_name \in {"customer_id", "order_id", "product_id"} -> x.n > 0
      [] param_name = "quantity" -> QuantityValidator(x)
      [] param_name = "new_status" -> x.s \in OrderStatuses
      [] param_name \in {"start_date", "end_date"} -> ValidateIsoDate(x.s)
      [] OTHER -> TRUE

\* the elements of a sequence
Range(seq) == {seq[i] : i \in 1..Len(seq)}

\* the least index of a non-empty set of indexes
First(indexes) == CHOOSE i \in indexes : \A j \in indexes : i <= j

\* return True, None, params
ValidResult(params) ==
    [raised |-> "none", is_valid |-> TRUE, error_message |-> NoMessage,
     params |-> params]

\* return False, message, params
InvalidResult(kind, param_name, expected, params) ==
    [raised |-> "none", is_valid |-> FALSE,
     error_message |-> [kind |-> kind, param |-> param_name, expected |-> expected],
     params |-> params]

\* an exception that leaves validate_tool_params
RaisedResult(exception, params) ==
    [raised |-> exception, is_valid |-> FALSE, error_message |-> NoMessage,
     params |-> params]

\* validate_tool_params. The validators are called on converted values
\* only, on which none of them raises.
ValidateToolParams(tool_name, params) ==
    IF tool_name \notin DOMAIN tool_schemas
    THEN ValidResult(params)
    ELSE
    LET schema == tool_schemas[tool_name]
        missing == {i \in 1..Len(schema.required) :
                       params[schema.required[i]] = Absent}
    IN IF missing # {}
       THEN InvalidResult("missing", schema.required[First(missing)], "none", params)
       ELSE
       LET names == schema.required \o
                    SelectSeq(schema.optional,
                              LAMBDA p : \/ params[p] # Absent
                                         \/ p \in DOMAIN schema.defaults)
           given(p) == IF params[p] # Absent THEN params[p] ELSE schema.defaults[p]
           conv == [p \in Range(names) |->
                       IF p \in DOMAIN schema.types
                       THEN TypeConversion(given(p), schema.types[p])
                       ELSE Converted(given(p))]
           bad == {i \in 1..Len(names) : conv[names[i]].outcome # "ok"}
       IN IF bad # {}
          THEN LET p == names[First(bad)]
               IN IF conv[p].outcome \in {"ValueError", "TypeError"}
                  THEN InvalidResult("type", p, schema.types[p], params)
                  ELSE RaisedResult(conv[p].outcome, params)
          ELSE
          LET processed_params ==
                  [p \in AllParamNames |->
                      IF p \in Range(names) THEN conv[p].value ELSE Absent]
              failed == {i \in 1..Len(schema.validators) :
                            /\ schema.validators[i] \in Range(names)
                            /\ ~ValidatorHolds(schema.validators[i],
                                               processed_params[schema.validators[i]])}
          IN IF failed # {}
             THEN InvalidResult("validation", schema.validators[First(failed)],
                                "none", params)
             ELSE ValidResult(processed_params)

\* the values a parameter is given
ParamValues ==
    {IntValue(0 - 1), IntValue(0), IntValue(1), IntValue(1000), IntValue(1001),
     StrValue(<<"5">>), StrValue(<<"a", "b", "c">>), StrValue(<<"p", "a", "i", "d">>),
     StrValue(<<"2", "0", "2", "4", "-", "0", "1", "-", "0", "1">>),
     FloatValue(5), FloatValue(25), Infinity, NoneValue, TrueValue}

\* the tools validated: those of tool_schemas and one without a schema
ValidatedTools == DOMAIN tool_schemas \cup {"get_weather"}

\* the names a schema declares
Declared(tool_name) ==
    IF tool_name \in DOMAIN tool_schemas
    THEN Range(tool_schemas[tool_name].required) \cup
         Range(tool_schemas[tool_name].optional)
    ELSE {"customer_id"}

\* the dicts a tool is validated with: each declared name absent or with
\* one of the values, with and without a name the schema does not declare
ParamDicts(tool_name) ==
    {[p \in AllParamNames |->
         IF p \in Declared(tool_name) THEN g[p]
         ELSE IF p = "extra" THEN e ELSE Absent] :
        g \in [Declared(tool_name) -> ParamValues \cup {Absent}],
        e \in {Absent, IntValue(1)}}

\* one call of validate_tool_params; the validator keeps nothing between
\* calls, so one call is followed
ValidateToolParamsCall ==
    /\ res = NoResult
    /\ \E tool_name \in ValidatedTools :
       \E params \in ParamDicts(tool_name) :
       \E v \in {ValidateToolParams(tool_name, params)} :
          res' = [op |-> "validate_tool_params", returned |-> (v.raised = "none"),
                  raised |-> v.raised, success |-> v.is_valid, tool |-> tool_name,
                  given |-> params, processed |-> v.params,
                  message |-> v.error_message]
    /\ UNCHANGED <<batch_vars, monitor_vars, recovery_vars>>
    /\ UNCHANGED <<orch_vars, client_vars, cb_vars, ghost_vars, now>>

NextValidator == ValidateToolParamsCall

SpecValidator == Init /\ [][NextValidator]_vars

(***************************************************************************)
(* MCPFallbackHandler on parameter dicts (mcp_fallback_handler.py)         *)
(***************************************************************************)
\* not x, for a value a dict holds or None when the key is absent
Falsy(v) ==
    \/ v.kind \in {"absent", "NoneType"}
    \/ v.kind \in {"int", "bool"} /\ v.n = 0
    \/ v.kind = "float" /\ v.n = 0 /\ v.s = <<>>
    \/ v.kind = "str" /\ v.s = <<>>

\* what a _fallback_* function did: its dict, whether it called
\* _execute_query, and the exception that left it
FallbackQueried(store_ok) ==
    [status |-> "success", results |-> ExecuteQuery(store_ok), queried |-> TRUE,
     raised |-> "none"]

FallbackRefused == [status |-> "error", results |-> "none", queried |-> FALSE,
                    raised |-> "none"]

FallbackRaised(exception) ==
    [status |-> "none", results |-> "none", queried |-> FALSE, raised |-> exception]

\* the _fallback_* function of a supported tool; a str method called on a
\* value that is no str raises AttributeError
FallbackFunc(tool_name, params, store_ok) ==
    CASE tool_name = "search_customers" ->
            IF Falsy(params["name_pattern"]) \/ params["name_pattern"].kind = "str"
            THEN FallbackQueried(store_ok)
            ELSE FallbackRaised("AttributeError")
      [] tool_name \in {"get_customer_orders", "get_customer_value_by_status"} ->
            IF Falsy(params["customer_id"])
            THEN FallbackRefused
            ELSE FallbackQueried(store_ok)
      [] tool_name = "sales_by_month" ->
            IF \A p \in {"start_date", "end_date"} :
                  params[p].kind \in {"absent", "str"}
            THEN FallbackQueried(store_ok)
            ELSE FallbackRaised("AttributeError")
      [] OTHER -> FallbackQueried(store_ok)

\* execute_fallback_tool on a parameter dict: the dict it returns. store_ok
\* says whether the query runs without raising. Nothing in the repository
\* calls enable_fallback, so fallback_reason is 'Unknown'.
ExecuteFallbackToolOn(tool_name, params, store_ok) ==
    IF ~IsToolSupported(tool_name)
    THEN [status |-> "error", results |-> "none", queried |-> FALSE,
          fallback |-> TRUE, fallback_reason |-> "none"]
    ELSE LET result == FallbackFunc(tool_name, params, store_ok)
         IN IF result.raised # "none"
            THEN [status |-> "error", results |-> "none", queried |-> result.queried,
                  fallback |-> TRUE, fallback_reason |-> "none"]
            ELSE [status |-> result.status, results |-> result.results,
                  queried |-> result.queried, fallback |-> TRUE,
                  fallback_reason |-> "Unknown"]

\* the tools execute_fallback_tool is called with: the supported ones and
\* one without a fallback implementation
FallbackCallTools == FallbackTools \cup {"create_order"}

\* one call of execute_fallback_tool; what it returns depends on its
\* arguments and the store only, so one call is followed
ExecuteFallbackCall ==
    /\ res = NoResult
    /\ \E tool_name \in FallbackCallTools, store_ok \in BOOLEAN :
       \E params \in ParamDicts(tool_name) :
       \E f \in {ExecuteFallbackToolOn(tool_name, params, store_ok)} :
          res' = [op |-> "execute_fallback_tool", returned |-> TRUE,
                  tool |-> tool_name, given |-> params, store_ok |-> store_ok,
                  status |-> f.status, results |-> f.results,
                  queried |-> f.queried, fallback |-> f.fallback]
    /\ UNCHANGED <<batch_vars, monitor_vars, recovery_vars>>
    /\ UNCHANGED <<orch_vars, client_vars, cb_vars, ghost_vars, now>>

NextFallback == ExecuteFallbackCall

SpecFallback == Init /\ [][NextFallback]_vars

(***************************************************************************)
(* The client pool on its own (enhanced_mcp_client.py)                     *)
(***************************************************************************)
\* the coroutines that take handles from the pool
Callers == 1..MaxCallers

\* the handles _get_client has returned, oldest first, since the pool was
\* last built or emptied
Acquired == IF res.op = "_get_client" THEN res.log ELSE <<>>

\* one _get_client() by a caller. The method has no await in it, so on the
\* event loop it runs from its first line to its return without another
\* caller in between. The handle is client_pool[pool_index].
GetClientCall(caller) ==
    /\ Len(Acquired) < MaxAcquires
    /\ LET g == GetClient(client_pool, pool_index)
           handle == pool_index
       IN /\ pool_index' = g.pool_index
          /\ res' = [NoResult EXCEPT
                        !.op = "_get_client", !.raised = g.raised,
                        !.returned = (g.raised = "none"),
                        !.log = IF g.raised = "none"
                                THEN Append(Acquired, [caller |-> caller,
                                                       handle |-> handle])
                                ELSE Acquired]
    /\ UNCHANGED <<batch_vars, monitor_vars, recovery_vars>>
    /\ UNCHANGED <<orch_vars, client_state, client_pool, tools_loaded, metrics,
                   cache, cb_vars, ghost_vars, now>>

\* EnhancedMCPClient.cleanup
ClientCleanup ==
    /\ client_pool > 0
    /\ client_pool' = 0
    /\ client_state' = "DISCONNECTED"
    /\ res' = [NoResult EXCEPT !.op = "cleanup", !.returned = TRUE]
    /\ UNCHANGED <<batch_vars, monitor_vars, recovery_vars>>
    /\ UNCHANGED <<orch_vars, pool_index, tools_loaded, metrics, cache, cb_vars,
                   ghost_vars, now>>

NextPool ==
    \/ ClientStartup
    \/ \E caller \in Callers : GetClientCall(caller)
    \/ ClientCleanup

SpecPool == InitClient /\ [][NextPool]_vars

(***************************************************************************)
(* _attempt_recovery step by step (mcp_orchestrator.py)                    *)
(***************************************************************************)
\* what the await of _test_primary_connection is applied to: the call
\* raises TypeError where it does not bind, and returns a list where it does
ProbeAwaited == IF Binds(get_available_tools_params, 1) THEN "list" ELSE "TypeError"

\* an await that hands control to the event loop whatever it is applied to
SuspendsAlways(awaited) == TRUE

\* an await hands control to the event loop only when it is applied to an
\* awaitable that is not finished; on any other object it raises at once
Suspends(awaited) == awaited = "coroutine"

\* an _attempt_recovery task is between its switch to RECOVERY and its
\* final switch
InProgress == res.op = "attempt_recovery_probe"

\* the event loop can run another callback or task
Idle == ~InProgress \/ Suspends(ProbeAwaited)

\* _attempt_recovery from its start to the await of the probe (lines 311-325)
AttemptRecoveryBegin ==
    /\ Idle
    /\ recovery_tasks > 0
    /\ recovery_tasks' = recovery_tasks - 1
    /\ IF current_mode = "PRIMARY"
       THEN /\ res' = [NoResult EXCEPT !.op = "attempt_recovery", !.returned = TRUE,
                                       !.mode_at_call = current_mode]
            /\ UNCHANGED <<current_mode, mode_history, recovery_attempts,
                           last_recovery_attempt>>
       ELSE LET mh0 == [mode |-> current_mode, history |-> mode_history]
                mh1 == SwitchMode(mh0, "RECOVERY")
            IN /\ last_recovery_attempt' = now
               /\ recovery_attempts' = recovery_attempts + 1
               /\ current_mode' = mh1.mode
               /\ mode_history' = mh1.history
               /\ res' = [NoResult EXCEPT !.op = "attempt_recovery_probe",
                                          !.mode_at_call = current_mode,
                                          !.mode = "RECOVERY", !.at = now]
    /\ UNCHANGED <<batch_vars, monitor_vars, recovery_vars>>
    /\ UNCHANGED <<fallback_handler, consecutive_errors, mode_metrics, initialized,
                   client_vars, cb_vars, ghost_vars, now>>

\* _attempt_recovery from the result of the probe to its end (lines 325-332)
AttemptRecoveryFinish ==
    /\ InProgress
    /\ LET mh1 == [mode |-> current_mode, history |-> mode_history]
           probe == TestPrimaryConnection(tools_loaded)
           mh2 == IF probe
                  THEN SwitchMode(mh1, "PRIMARY")
                  ELSE SwitchMode(mh1, FailoverMode(fallback_handler))
       IN /\ recovery_attempts' = IF probe THEN 0 ELSE recovery_attempts
          /\ current_mode' = mh2.mode
          /\ mode_history' = mh2.history
          /\ res' = [NoResult EXCEPT !.op = "attempt_recovery", !.returned = TRUE,
                                     !.mode_at_call = res.mode_at_call,
                                     !.mode = "RECOVERY", !.probe = tools_loaded,
                                     !.at = res.at]
    /\ UNCHANGED <<batch_vars, monitor_vars, recovery_vars>>
    /\ UNCHANGED <<fallback_handler, consecutive_errors, last_recovery_attempt,
                   mode_metrics, recovery_tasks, initialized, client_vars, cb_vars,
                   ghost_vars, now>>

\* the health states the monitor reports in a status change
ServerHealth == {"HEALTHY", "UNHEALTHY", "UNKNOWN"}

\* _handle_status_change(server, old_status, new_status)
HandleStatusChange(server, new_status) ==
    /\ recovery_attempts + recovery_tasks < MaxTasks
    /\ LET fail == server = "primary_url" /\ new_status = "UNHEALTHY"
           schedule == server = "primary_url" /\ new_status = "HEALTHY"
                          /\ current_mode # "PRIMARY"
           mh == [mode |-> current_mode, history |-> mode_history]
           mh1 == IF fail THEN SwitchMode(mh, FailoverMode(fallback_handler)) ELSE mh
       IN /\ current_mode' = mh1.mode
          /\ mode_history' = mh1.history
          /\ recovery_tasks' = IF schedule THEN recovery_tasks + 1 ELSE recovery_tasks
          /\ res' = [NoResult EXCEPT !.op = "handle_status_change", !.returned = TRUE,
                                     !.mode_at_call = current_mode,
                                     !.scheduled = schedule]
    /\ UNCHANGED <<batch_vars, monitor_vars, recovery_vars>>
    /\ UNCHANGED <<fallback_handler, consecutive_errors, recovery_attempts,
                   last_recovery_attempt, mode_metrics, initialized, client_vars,
                   cb_vars, ghost_vars, now>>

StatusChange ==
    /\ Idle
    /\ \E s \in Servers, h \in ServerHealth : HandleStatusChange(s, h)

FailureWhileIdle == Idle /\ MonitorFailure

StartupWhileIdle == Idle /\ Startup

TickWhileIdle == Idle /\ Tick

NextAttempt ==
    \/ StartupWhileIdle
    \/ StatusChange
    \/ FailureWhileIdle
    \/ AttemptRecoveryBegin
    \/ AttemptRecoveryFinish
    \/ TickWhileIdle

SpecAttempt == Init /\ [][NextAttempt]_vars

\* a started recovery attempt runs on to its end
SpecAttemptFair == SpecAttempt /\ WF_vars(AttemptRecoveryFinish)

(***************************************************************************)
(* Recoveries scheduled by fallback successes (mcp_orchestrator.py)        *)
(***************************************************************************)
\* _handle_successful_execution(result) for a result of mode FALLBACK, as
\* execute_tool calls it after the fallback executor has served a call
FallbackSuccess ==
    /\ calls < MaxSuccesses
    /\ fallback_handler
    /\ HandleSuccessfulExecution("FALLBACK")
    /\ calls' = calls + 1
    /\ res' = [NoResult EXCEPT !.op = "handle_successful_execution",
                               !.returned = TRUE, !.mode = "FALLBACK",
                               !.mode_at_call = current_mode,
                               !.scheduled = ShouldAttemptRecovery, !.at = now]
    /\ UNCHANGED <<batch_vars, monitor_vars, recovery_vars>>
    /\ UNCHANGED <<fallback_handler, current_mode, recovery_attempts,
                   last_recovery_attempt, mode_history, initialized, client_vars,
                   cb_vars, failed_streak, cb_failed_streak, cb_half_open_successes,
                   now>>

\* every recovery task here was created by a fallback success
NextSchedule ==
    \/ Startup
    \/ MonitorFailure
    \/ FallbackSuccess
    \/ AttemptRecovery
    \/ Tick

SpecSchedule == Init /\ [][NextSchedule]_vars

(***************************************************************************)
(* Properties                                                              *)
(***************************************************************************)
\* the last operation was an execute_tool call
Executed == res.op = "execute_tool"

\* every attempt of the primary path of the last call raised
PrimaryAttemptFailed ==
    /\ Executed
    /\ UsesPrimary(res.mode_at_call)
    /\ res.retries = recovery_strategy_max_retries

\* C1: a call made in mode PRIMARY whose remote target answered its last
\* request with a successful response returns (nothing is raised) an
\* ExecutionResult with success = true and mode = PRIMARY whose payload is the
\* client's, and the fallback executor is not called.
C1_HealthyRemoteSucceedsInPrimary ==
    (Executed /\ res.mode_at_call = "PRIMARY" /\ res.last = "ok200")
        => /\ res.raised = "none"
           /\ res.returned
           /\ res.success
           /\ res.mode = "PRIMARY"
           /\ res.payload = "success"
           /\ res.invoke_calls >= 1
           /\ res.fallback_calls = 0

\* a call in mode PRIMARY that the remote answered successfully after a retry
C1_Witness ==
    /\ Executed
    /\ res.mode_at_call = "PRIMARY"
    /\ res.last = "ok200"
    /\ res.fails = 1
    /\ res.success
    /\ res.mode = "PRIMARY"

\* C2: execute_tool never lets an exception escape: every call returns an
\* ExecutionResult, and a failed one has error, mode and retries filled.
C2_NoExceptionEscapes ==
    Executed
        => /\ res.raised = "none"
           /\ res.returned
           /\ (~res.success => res.error # "none" /\ res.mode \in ExecutionMode)

\* C3: after error_threshold consecutive execute_tool calls whose remote
\* attempt failed, with no successful call in between, the mode is FALLBACK
\* when a fallback executor is configured and DEGRADED when none is.
C3_FailingCallsLeavePrimary ==
    failed_streak >= error_threshold => current_mode = FailoverMode(fallback_handler)

\* C4: in mode FALLBACK a call the local executor can serve, made when no
\* recovery was attempted before, succeeds and starts a recovery; a recovery
\* ends in PRIMARY when the primary path is live (its tools are loaded) and
\* in the mode held before it otherwise.
C4_RecoveryTransitions ==
    /\ (Executed /\ res.mode_at_call = "FALLBACK" /\ res.tool \in FallbackTools
            /\ res.store_ok /\ last_recovery_attempt = NoTime)
          => (res.success /\ res.mode = "FALLBACK" /\ res.scheduled)
    /\ (res.op = "attempt_recovery" /\ res.mode = "RECOVERY" /\ res.probe)
          => current_mode = "PRIMARY"
    /\ (res.op = "attempt_recovery" /\ res.mode = "RECOVERY" /\ ~res.probe)
          => current_mode = res.mode_at_call

\* C5: initialize() returns true when the primary is reachable (the manifest
\* was loaded and names a tool); after it returned true the mode is PRIMARY
\* if the primary is reachable and FALLBACK or DEGRADED otherwise, never
\* RECOVERY.
C5_InitializeSetsMode ==
    res.op = "initialize"
        => /\ (res.probe => res.returned)
           /\ (res.returned =>
                 /\ current_mode # "RECOVERY"
                 /\ current_mode = IF res.probe THEN "PRIMARY"
                                    ELSE FailoverMode(fallback_handler))

\* C6: when the primary attempt of a call failed and a fallback executor is
\* configured that supports the tool, the executor is invoked exactly once
\* and the result is success with mode FALLBACK; when no fallback supports
\* the tool the result is a returned failure with mode DEGRADED.
C6_FallbackAfterPrimaryFailure ==
    PrimaryAttemptFailed
        => IF fallback_handler /\ IsToolSupported(res.tool)
           THEN /\ res.fallback_calls = 1
                /\ res.returned
                /\ res.success
                /\ res.mode = "FALLBACK"
           ELSE /\ res.returned
                /\ ~res.success
                /\ res.mode = "DEGRADED"
                /\ res.fallback_calls = 0

\* C7: a call made in mode FALLBACK or DEGRADED calls neither invoke_tool nor
\* the remote; in DEGRADED it returns a failed DEGRADED result without
\* calling the fallback executor; a call that used the remote client was made
\* in mode PRIMARY or RECOVERY.
C7_NoRemoteCallOutsidePrimary ==
    Executed
        => /\ (res.mode_at_call \in {"FALLBACK", "DEGRADED"}
                 => res.invoke_calls = 0 /\ res.requests = 0 /\ ~res.cache_hit)
           /\ (res.mode_at_call = "DEGRADED"
                 => /\ res.raised = "none"
                    /\ res.returned
                    /\ ~res.success
                    /\ res.mode = "DEGRADED"
                    /\ res.error # "none"
                    /\ res.fallback_calls = 0)
           /\ (res.invoke_calls > 0 => res.mode_at_call \in {"PRIMARY", "RECOVERY"})

\* a call made in mode DEGRADED came back failed
C7_Witness ==
    /\ Executed
    /\ res.mode_at_call = "DEGRADED"
    /\ res.returned
    /\ ~res.success

\* C8: a call whose remote target failed max_retries - 1 requests and then
\* succeeded returns success with retries = max_retries - 1; a call whose
\* remote target failed every request returns failure after exactly
\* max_retries requests.
C8_RetriesAreCounted ==
    (Executed /\ res.mode_at_call = "PRIMARY")
        => /\ (res.fails = max_retries - 1 /\ res.last = "ok200"
                 => res.success /\ res.retries = max_retries - 1)
           /\ (RemoteFailed(res)
                 => ~res.success /\ res.requests = max_retries)

\* C9: once failure_threshold call_failed() came in a row, the breaker is
\* OPEN right after each further call_failed() and is not CLOSED before a
\* call_succeeded(); can_execute() on an OPEN breaker whose last failure is
\* less than recovery_timeout old returns false and leaves it OPEN.
C9_OpensAfterThreshold ==
    /\ (cb_failed_streak >= failure_threshold
          => /\ cb_state # "CLOSED"
             /\ (res.op = "call_failed" => cb_state = "OPEN"))
    /\ (res.op = "can_execute" /\ res.mode_at_call = "OPEN"
            /\ res.elapsed < recovery_timeout)
          => (~res.returned /\ cb_state = "OPEN")

\* the breaker opened by failure_threshold failures has just refused a call
C9_Witness ==
    /\ cb_failed_streak >= failure_threshold
    /\ res.op = "can_execute"
    /\ res.mode_at_call = "OPEN"
    /\ ~res.returned
    /\ cb_state = "OPEN"

C11_FailureInHalfOpenReopens ==
    [][/\ (CallFailed /\ cb_state = "HALF_OPEN")
            => /\ cb_state' = "OPEN"
               /\ success_count' = 0
               /\ last_failure_time' = now
       /\ (CanExecute /\ cb_state = "OPEN" /\ last_failure_time # NoTime
                /\ now - last_failure_time < recovery_timeout)
            => /\ ~res'.returned
               /\ cb_state' = "OPEN"]_vars

\* a HALF_OPEN breaker that had counted a success was reopened by a failure
\* and has refused the next call
C11_Witness ==
    /\ res.op = "can_execute"
    /\ res.mode_at_call = "OPEN"
    /\ ~res.returned
    /\ cb_half_open_successes = 1
    /\ success_count = 0
    /\ cb_state = "OPEN"

\* C12: a tool call made while the breaker of the tool is OPEN and refuses
\* calls (can_execute() would return false) makes no remote attempt and
\* leaves the retry and attempt counters (retries, execution_count) alone.
C12_OpenBreakerRejectsCall ==
    [][(/\ cb_state = "OPEN" /\ ~BreakerCanExecute(Breaker, now).allowed
        /\ calls' = calls + 1 /\ res'.op = "execute_tool")
          => /\ res'.requests = 0
             /\ res'.invoke_calls = 0
             /\ res'.retries = 0
             /\ metrics' = metrics]_vars

\* two parameter mappings hold the same items, in whatever order
SameMapping(p, q) == {p[i] : i \in 1..Len(p)} = {q[i] : i \in 1..Len(q)}

\* C13: after an invoke_tool call with caching that got its successful result
\* from the remote, the next invoke_tool call with caching for the same tool
\* and the same parameter mapping (in any key order) returns the same payload
\* from the cache without a request when it is made less than cache_ttl
\* later; when it is made cache_ttl or more later it is not served from the
\* cache, sends a request, and the old entry is gone.
C13_CacheServesWithinTtl ==
    [][(/\ res.op = "invoke_tool" /\ res.use_cache
        /\ res.status = "success" /\ ~res.cache_hit
        /\ calls' = calls + 1
        /\ res'.op = "invoke_tool" /\ res'.use_cache
        /\ res'.tool = res.tool
        /\ SameMapping(res'.params, res.params))
          => IF now - res.at < cache_ttl
             THEN /\ res'.cache_hit
                  /\ res'.requests = 0
                  /\ res'.status = "success"
                  /\ res'.results = res.results
             ELSE /\ ~res'.cache_hit
                  /\ res'.requests >= 1
                  /\ LET e == cache'[GetCacheKey(res'.tool, res'.params)]
                     IN e.present => e.timestamp = now]_vars

\* a call was served from the cache although its mapping was written in
\* another key order than the sorted one
C13_Witness ==
    /\ res.op = "invoke_tool"
    /\ res.cache_hit
    /\ res.requests = 0
    /\ res.params # JsonDumps(res.params)
    /\ cache[GetCacheKey(res.tool, res.params)].present

\* C14: in invoke_tool a 4xx answer ends the call with an error result and
\* no further request (one request when it is the first answer); a 5xx
\* answer is retried, so a call ends on one only as its max_retries-th
\* request; no call makes more than max_retries requests; and the delays
\* slept are retry_delay x 1, retry_delay x 2, ..., one between each two
\* consecutive requests and none after the last.
C14_RetryPolicy ==
    (res.op = "invoke_tool" /\ res.requests >= 1)
        => /\ res.requests <= max_retries
           /\ (res.last = "http4xx"
                 => /\ res.status = "error"
                    /\ res.requests = res.fails + 1
                    /\ (res.fails = 0 => res.requests = 1))
           /\ (res.last = "http5xx"
                 => res.status = "error" /\ res.requests = max_retries)
           /\ res.sleeps = [k \in 1..(res.requests - 1) |-> retry_delay * k]

\* a call that met 5xx answers only: max_retries requests, two delays
C14_Witness ==
    /\ res.op = "invoke_tool"
    /\ res.last = "http5xx"
    /\ res.fails = max_retries
    /\ res.requests = max_retries
    /\ Len(res.sleeps) = max_retries - 1
    /\ res.status = "error"

\* C15: every invoke_tool call that returns without being served from the
\* cache increments
\* the execution_count of its tool by exactly one and exactly one of
\* success_count and failure_count by exactly one, so that execution_count =
\* success_count + failure_count for every tool.
C15_MetricsCountEachCallOnce ==
    [][(calls' = calls + 1 /\ res'.op = "invoke_tool" /\ res'.returned
            /\ ~res'.cache_hit)
          => LET m == metrics[res'.tool]
                 m1 == metrics'[res'.tool]
             IN /\ m1.execution_count = m.execution_count + 1
                /\ \/ /\ m1.success_count = m.success_count + 1
                      /\ m1.failure_count = m.failure_count
                   \/ /\ m1.success_count = m.success_count
                      /\ m1.failure_count = m.failure_count + 1
                /\ m1.execution_count = m1.success_count + m1.failure_count]_vars

\* C16: invoke_tool never raises: every call returns a value, and a call that
\* did not end with a successful answer returns status = error with an
\* error message.
C16_InvokeNeverRaises ==
    res.op = "invoke_tool"
        => /\ res.raised = "none"
           /\ res.returned
           /\ res.status \in {"success", "error"}
           /\ (res.status = "error" => res.error # "none")
           /\ ((~res.cache_hit /\ res.last \notin {"ok200", "rpc_error200"})
                 => res.status = "error")

\* C17: a 200 answer whose envelope carries `error` and no `result` is
\* returned with status error, is counted as a failure and not as a success
\* in the metrics of the tool, and is not stored in the cache.
C17_EnvelopeErrorIsAnError ==
    [][(calls' = calls + 1 /\ res'.op = "invoke_tool" /\ res'.last = "rpc_error200")
          => /\ res'.status = "error"
             /\ metrics'[res'.tool].success_count = metrics[res'.tool].success_count
             /\ metrics'[res'.tool].failure_count = metrics[res'.tool].failure_count + 1
             /\ (res'.use_cache
                   => ~cache'[GetCacheKey(res'.tool, res'.params)].present)]_vars

\* execute_batch has handed control back to its caller
BatchFinished == batch_phase \in {"returned", "raised"}

\* entry r of a returned list is what call i of the batch came to: the result
\* of its invoke_tool call, or the skipped result when the call was not made
OutcomeOf(r, i) ==
    /\ r.call = i
    /\ CASE invoke_outcome[i] = "success" -> r.status = "success"
         [] invoke_outcome[i] \in {"error", "raised"} ->
                r.status = "error" /\ r.error # "skipped"
         [] invoke_outcome[i] = "none" -> r = SkippedResult(i)
         [] OTHER -> FALSE

\* C18: whenever execute_batch hands control back, in either mode and for
\* either value of stop_on_error, it returns a list with one entry per call
\* of tool_calls, and entry i is the outcome of call i.
C18_BatchReturnsOneResultPerCall ==
    [][(~BatchFinished /\ BatchFinished')
          => (/\ batch_phase = "returned"
              /\ Len(returned) = Len(tool_calls)
              /\ \A i \in 1..Len(tool_calls) : OutcomeOf(returned[i], i))']_vars

\* C19: with stop_on_error, no call of the batch is started once a call of
\* it has failed, and execute_batch returns normally a list without an empty
\* slot in which every call that was not made holds the skipped result of
\* its position.
C19_StopOnErrorSkipsTheRest ==
    [][/\ (stop_on_error /\ \E i \in DOMAIN invoke_outcome :
                                 invoke_outcome[i] \in {"error", "raised"})
            => \A i \in DOMAIN invoke_outcome :
                    invoke_outcome[i] = "none" => invoke_outcome'[i] = "none"
       /\ (~BatchFinished /\ BatchFinished' /\ stop_on_error')
            => (/\ batch_phase = "returned"
                /\ Len(returned) = Len(tool_calls)
                /\ \A i \in 1..Len(returned) :
                        /\ returned[i] # NoneSlot
                        /\ returned[i].status = "error" \/ invoke_outcome[i] = "success"
                        /\ invoke_outcome[i] = "none" => returned[i] = SkippedResult(i))'
      ]_vars

\* C20: in parallel mode the invoke_tool calls of a batch that are in flight
\* never outnumber max_concurrent, and without stop_on_error every call of a
\* running batch is eventually started.
C20_BoundedConcurrency ==
    /\ [](parallel => InFlight <= max_concurrent)
    /\ (batch_phase = "running" /\ parallel /\ ~stop_on_error)
          ~> (\A i \in DOMAIN invoke_outcome : invoke_outcome[i] # "none")

\* a batch longer than max_concurrent, every call started, the last of them
\* started after a permit came back, and the semaphore full again
C20_Witness ==
    /\ parallel
    /\ ~stop_on_error
    /\ Len(tool_calls) > max_concurrent
    /\ \A i \in DOMAIN invoke_outcome : invoke_outcome[i] # "none"
    /\ InFlight = max_concurrent

\* the last operation was a probe of a server that has a client
Probed == res.op = "check_server_health" /\ res.check # "none"

\* C21: after a probe that succeeded consecutive_failures is 0 and the status
\* is HEALTHY with tools and DEGRADED without; after one that failed
\* consecutive_failures has grown by one and the status is UNHEALTHY from
\* failure_threshold failures on and DEGRADED below.
C21_ProbeSetsStatus ==
    Probed =>
        LET server == servers[res.server]
        IN  IF res.check = "success"
            THEN /\ server.consecutive_failures = 0
                 /\ server.status = IF server.available_tools > 0 THEN "HEALTHY"
                                                                  ELSE "DEGRADED"
            ELSE /\ server.consecutive_failures = res.old_failures + 1
                 /\ server.status =
                        IF server.consecutive_failures >= monitor_failure_threshold
                        THEN "UNHEALTHY" ELSE "DEGRADED"

\* the probe that brought the failures to the threshold
C21_Witness ==
    /\ Probed
    /\ res.check # "success"
    /\ servers[res.server].consecutive_failures = monitor_failure_threshold
    /\ servers[res.server].status = "UNHEALTHY"

\* the callbacks a status transition calls, in order
ExpectedCalls(old_status, new_status) ==
    [i \in 1..status_change_callbacks |-> <<"status_change", i>>]
    \o (CASE new_status = "UNHEALTHY" -> [i \in 1..failure_callbacks |-> <<"failure", i>>]
          [] new_status = "HEALTHY" -> [i \in 1..recovery_callbacks |-> <<"recovery", i>>]
          [] OTHER -> <<>>)

\* C22: a probe that changes the status of its server calls every
\* status-change callback, then every failure callback when the server
\* entered UNHEALTHY or every recovery callback when it entered HEALTHY,
\* whichever of them raise; a probe that leaves the status as it was, and
\* every other operation, calls none.
C22_CallbacksOnTransition ==
    LET made == [i \in 1..Len(res.log) |-> <<res.log[i].kind, res.log[i].index>>]
    IN  IF Probed /\ servers[res.server].status # res.old_status
        THEN made = ExpectedCalls(res.old_status, servers[res.server].status)
        ELSE made = <<>>

\* a status-change callback raised, and the callbacks after it were called
\* all the same, down to a failure callback
C22_Witness ==
    /\ Probed
    /\ \E i, j \in 1..Len(res.log) :
            /\ i < j
            /\ res.log[i].kind = "status_change"
            /\ res.log[i].raised
            /\ res.log[i + 1].kind = "status_change"
            /\ res.log[j].kind = "failure"

C24_MonitorDrivesMode ==
    [][/\ (/\ servers["primary"].status # "UNHEALTHY"
           /\ servers'["primary"].status = "UNHEALTHY"
           /\ current_mode = "PRIMARY")
            => current_mode' = FailoverMode(fallback_handler)
       /\ (/\ servers["primary"].status # "HEALTHY"
           /\ servers'["primary"].status = "HEALTHY"
           /\ current_mode # "PRIMARY")
            => recovery_tasks' = recovery_tasks + 1
      ]_vars

\* the letters a and b differ at most in case
SameLetter(a, b) ==
    \/ a = b
    \/ \E i \in 1..Len(UpperCase) : {a, b} = {UpperCase[i], LowerCase[i]}

\* term occurs in text when case is ignored
OccursIgnoringCase(term, text) ==
    \E i \in 1..(Len(text) - Len(term) + 1) :
        \A j \in 1..Len(term) : SameLetter(text[i + j - 1], term[j])

\* some term of branch k occurs in text when case is ignored
CategoryMatches(k, text) ==
    \E j \in 1..Len(ClassifyTerms[k]) : OccursIgnoringCase(ClassifyTerms[k][j], text)

\* str.upper on a text
UpperText(s) ==
    [i \in 1..Len(s) |->
        IF \E k \in 1..Len(LowerCase) : LowerCase[k] = s[i]
        THEN UpperCase[CHOOSE k \in 1..Len(LowerCase) : LowerCase[k] = s[i]]
        ELSE s[i]]

\* C26: classify_error returns the first category, in the order CONNECTION,
\* TIMEOUT, VALIDATION, RATE_LIMIT, AUTHENTICATION, SERVER, one of whose terms
\* occurs in the text when case is ignored, and UNKNOWN when no term occurs;
\* texts that differ only in case get the same category.
C26_ClassifyFirstMatchingCategory ==
    res.op = "classify_error" =>
        /\ \A k \in 1..Len(ClassifyTerms) :
              res.error_type = ErrorType[k] <=>
                  /\ CategoryMatches(k, res.text)
                  /\ \A h \in 1..(k - 1) : ~CategoryMatches(h, res.text)
        /\ res.error_type = "UNKNOWN_ERROR" <=>
              \A k \in 1..Len(ClassifyTerms) : ~CategoryMatches(k, res.text)
        /\ ClassifyError(UpperText(res.text)) = res.error_type
        /\ ClassifyError(LowerText(res.text)) = res.error_type

\* a text with capital letters that holds terms of two categories was given
\* the category that comes first
C26_Witness ==
    /\ res.op = "classify_error"
    /\ res.text # LowerText(res.text)
    /\ res.error_type = "CONNECTION_ERROR"
    /\ CategoryMatches(2, res.text)

\* the last operation was a handle_error call
Handled == res.op = "handle_error"

\* C25: handle_error executes the primary action of the plan of the error
\* type first and then the fallback actions in list order; it stops at the
\* first action that succeeds, runs nothing after it and returns its
\* result; it returns failure only when every action of the plan failed.
C25_PlanInOrderUntilFirstSuccess ==
    Handled =>
        LET plan == error_strategies[res.error_type]
            acts == <<plan.primary_action>> \o plan.fallback_actions
            n == Len(res.log)
        IN /\ n \in 1..Len(acts)
           /\ \A i \in 1..n : res.log[i].action = acts[i]
           /\ \A i \in 1..(n - 1) : ~res.log[i].success
           /\ res.success = res.log[n].success
           /\ res.success => res.result = res.log[n].result
           /\ ~res.success => n = Len(acts) /\ res.result = "None"

\* a plan of three actions whose retry raised and whose fallback returned:
\* the third action was not run
C25_Witness ==
    /\ Handled
    /\ res.success
    /\ Len(error_strategies[res.error_type].fallback_actions) = 2
    /\ Len(res.log) = 2
    /\ res.log[1].called = "retry_func"
    /\ res.result = "fallback_func"

\* how often the last handle_error call awaited the function of that name
TimesCalled(name) ==
    Cardinality({i \in 1..Len(res.log) : res.log[i].called = name})

\* C27: after handle_error has processed a SERVER error of a tool, the
\* breaker of that tool is OPEN, so that can_execute is false until the
\* recovery timeout has passed, and fallback_func has been called when one
\* was supplied.
C27_ServerErrorOpensBreaker ==
    (Handled /\ res.error_type = "SERVER_ERROR" /\ res.tool # "None") =>
        /\ cb_state = "OPEN"
        /\ SinceLastFailure < recovery_timeout =>
              ~BreakerCanExecute(Breaker, now).allowed
        /\ res.fallback_func # "None" => TimesCalled("fallback_func") = 1

\* C28: for an AUTHENTICATION error with retry_count = 0 handle_error calls
\* retry_func exactly once, and when that call fails it returns failure
\* without calling fallback_func.
C28_AuthRetriesOnce ==
    (Handled /\ res.error_type = "AUTHENTICATION_ERROR" /\ res.retry_count = 0
             /\ res.retry_func # "None") =>
        /\ TimesCalled("retry_func") = 1
        /\ res.retry_func = "raises" =>
              ~res.success /\ TimesCalled("fallback_func") = 0

\* C29: for a VALIDATION error handle_error calls neither retry_func nor
\* fallback_func, changes no breaker, sleeps no backoff and returns failure,
\* whatever retry_count is.
C29_ValidationFailsAtOnce ==
    [][(calls' = calls + 1 /\ res'.op = "handle_error"
                           /\ res'.error_type = "VALIDATION_ERROR") =>
          /\ \A i \in 1..Len(res'.log) :
                /\ res'.log[i].called = "none"
                /\ res'.log[i].slept = <<>>
                /\ ~res'.log[i].touched
          /\ UNCHANGED cb_vars
          /\ ~res'.success
          /\ res'.result = "None"]_vars

\* a VALIDATION error of a tool was handled with both functions supplied
\* and a positive retry_count
C29_Witness ==
    /\ Handled
    /\ res.error_type = "VALIDATION_ERROR"
    /\ res.tool # "None"
    /\ res.retry_count > 0
    /\ res.retry_func = "returns"
    /\ res.fallback_func = "returns"
    /\ ~res.success

\* the last operation was a validate_tool_params call
Validated == res.op = "validate_tool_params"

\* the schema of the tool validated last
ValidatedSchema == tool_schemas[res.tool]

\* the names that schema declares, the required ones first
DeclaredOrder == ValidatedSchema.required \o ValidatedSchema.optional

\* the value validation has for a declared name: the one given, else the default
Effective(p) ==
    IF res.given[p] # Absent THEN res.given[p]
    ELSE IF p \in DOMAIN ValidatedSchema.defaults THEN ValidatedSchema.defaults[p]
    ELSE Absent

\* what the value of a declared name converts to
ConversionOf(p) ==
    IF p \in DOMAIN ValidatedSchema.types
    THEN TypeConversion(Effective(p), ValidatedSchema.types[p])
    ELSE Converted(Effective(p))

IsMissing(p) == p \in Range(ValidatedSchema.required) /\ res.given[p] = Absent

IsUnconvertible(p) == Effective(p) # Absent /\ ConversionOf(p).outcome # "ok"

FailsPredicate(p) ==
    /\ Effective(p) # Absent
    /\ ConversionOf(p).outcome = "ok"
    /\ p \in Range(ValidatedSchema.validators)
    /\ ~ValidatorHolds(p, ConversionOf(p).value)

\* a declared parameter that is missing, does not convert or fails its predicate
Offends(p) == IsMissing(p) \/ IsUnconvertible(p) \/ FailsPredicate(p)

\* the first name of DeclaredOrder among a non-empty set of names
FirstDeclared(names) ==
    DeclaredOrder[First({i \in 1..Len(DeclaredOrder) : DeclaredOrder[i] \in names})]

\* what C30 says apart from the name in the message: success exactly when no
\* declared parameter offends; defaults for absent optional parameters; an
\* unknown tool passes with its parameters unchanged; an undeclared
\* parameter changes nothing; add_order_item with valid ids and an integer
\* quantity fails exactly when quantity < 1
ValidationOutcome ==
    IF res.tool \notin DOMAIN tool_schemas
    THEN res.success /\ res.processed = res.given
    ELSE /\ res.success <=> \A p \in Range(DeclaredOrder) : ~Offends(p)
         /\ res.success =>
               \A p \in Range(DeclaredOrder) :
                  res.processed[p] = ConversionOf(p).value
         /\ ValidateToolParams(res.tool, [res.given EXCEPT !["extra"] = Absent]).is_valid
               = res.success
         /\ (/\ res.tool = "add_order_item"
             /\ \A p \in {"order_id", "product_id"} :
                   res.given[p].kind = "int" /\ res.given[p].n > 0
             /\ res.given["quantity"].kind = "int") =>
               (~res.success <=> res.given["quantity"].n < 1)

\* validate_tool_params returned a failure for a tool with a schema
ValidationFailed ==
    Validated /\ res.returned /\ ~res.success /\ res.tool \in DOMAIN tool_schemas

FellBack == res.op = "execute_fallback_tool"

\* C31: execute_fallback_tool validates the parameters with the validator
\* before it touches the store: when validation fails, or the tool has no
\* fallback implementation, it returns an error result and issues no query;
\* every result carries the fallback marker.
C31_FallbackValidatesFirst ==
    FellBack =>
        /\ ~ValidateToolParams(res.tool, res.given).is_valid =>
              res.status = "error" /\ ~res.queried
        /\ ~IsToolSupported(res.tool) => res.status = "error" /\ ~res.queried
        /\ res.fallback

\* C40: execute_fallback_tool reports success only when the query really
\* ran: when the store fails or a required parameter is absent it returns
\* an error result, never status success with an empty result list.
C40_FallbackSuccessMeansQueryRan ==
    FellBack =>
        /\ (IsToolSupported(res.tool) /\ ~res.store_ok) => res.status = "error"
        /\ (\E p \in Range(tool_schemas[res.tool].required) : res.given[p] = Absent)
              => res.status = "error"
        /\ res.status = "success" => res.results = "rows"

\* C32: with a pool of N handles _get_client hands them out round-robin
\* whichever callers ask: any N acquisitions in a row return each handle
\* once, pool_index stays in 0..N-1, and the call returns at once; on an
\* empty pool it raises instead of returning a handle.
C32_RoundRobinAcquire ==
    /\ client_pool > 0 => pool_index \in 0..(client_pool - 1)
    /\ res.op = "_get_client" =>
          /\ res.returned <=> client_pool > 0
          /\ client_pool = 0 => res.raised = "RuntimeError" /\ res.log = <<>>
          /\ \A i \in 1..(Len(res.log) - client_pool + 1) :
                {res.log[k].handle : k \in i..(i + client_pool - 1)}
                    = 0..(client_pool - 1)

C32_Witness ==
    /\ res.op = "_get_client"
    /\ client_pool = PoolSize
    /\ Len(res.log) > PoolSize
    /\ \E i, j \in 1..Len(res.log) : res.log[i].caller # res.log[j].caller

RECURSIVE CounterTotal(_, _)
CounterTotal(f, S) ==
    IF S = {} THEN 0
    ELSE LET a == CHOOSE x \in S : TRUE IN f[a] + CounterTotal(f, S \ {a})

\* C35: every handle_error outcome is counted once, against the action that
\* produced it: a success reached through an action of the plan adds one to
\* the success counter of that action and to no other counter, a failure
\* adds one to one failure counter; the counters add up to the number of
\* completed calls.
C35_CountedAgainstProducingAction ==
    /\ [](CounterTotal(recovery_success_counts, RecoveryAction)
            + CounterTotal(recovery_failure_counts, RecoveryAction) = calls)
    /\ [][calls' = calls + 1 =>
            LET produced == res'.log[Len(res'.log)].action
            IN IF res'.success
               THEN /\ recovery_success_counts' =
                          [recovery_success_counts EXCEPT ![produced] = @ + 1]
                    /\ recovery_failure_counts' = recovery_failure_counts
               ELSE /\ recovery_success_counts' = recovery_success_counts
                    /\ \E a \in RecoveryAction : recovery_failure_counts' =
                          [recovery_failure_counts EXCEPT ![a] = @ + 1]]_vars

\* C36: in CLOSED call_succeeded sets failure_count to 0 and leaves the
\* breaker CLOSED, so a failure that is not the failure_threshold-th since
\* the last success leaves it CLOSED, and can_execute is true in CLOSED.
C36_SuccessResetsFailures ==
    /\ [][(res'.op = "call_succeeded" /\ cb_state = "CLOSED")
             => (failure_count' = 0 /\ cb_state' = "CLOSED")]_vars
    /\ [][(res'.op = "call_failed" /\ cb_state = "CLOSED"
              /\ cb_failed_streak + 1 < failure_threshold)
             => cb_state' = "CLOSED"]_vars
    /\ []((res.op = "can_execute" /\ res.mode_at_call = "CLOSED")
             => (res.returned /\ cb_state = "CLOSED"))

\* a success in a breaker that was CLOSED all along and had failed before
C36_Witness ==
    /\ res.op = "call_succeeded"
    /\ res.mode_at_call = "CLOSED"
    /\ last_failure_time # NoTime
    /\ cb_half_open_successes = 0
    /\ cb_state = "CLOSED"
    /\ failure_count = 0

\* C38: the counters stay below their thresholds, failure_count is 0
\* outside CLOSED and success_count is 0 outside HALF_OPEN; the state moves
\* only CLOSED to OPEN, OPEN to HALF_OPEN, HALF_OPEN to CLOSED and HALF_OPEN
\* to OPEN; call_succeeded in OPEN changes nothing.
C38_BreakerInvariants ==
    /\ [](/\ failure_count \in 0..(failure_threshold - 1)
          /\ success_count \in 0..(success_threshold - 1)
          /\ cb_state # "CLOSED" => failure_count = 0
          /\ cb_state # "HALF_OPEN" => success_count = 0)
    /\ [][cb_state' # cb_state =>
             <<cb_state, cb_state'>> \in
                {<<"CLOSED", "OPEN">>, <<"OPEN", "HALF_OPEN">>,
                 <<"HALF_OPEN", "CLOSED">>, <<"HALF_OPEN", "OPEN">>}]_vars
    /\ [][(res'.op = "call_succeeded" /\ cb_state = "OPEN")
             => UNCHANGED cb_vars]_vars

C38_Witness ==
    /\ res.op = "call_succeeded"
    /\ res.mode_at_call = "OPEN"
    /\ cb_state = "OPEN"
    /\ cb_half_open_successes > 0

\* C39: a call made in PRIMARY whose remote invocation ended in an error
\* (a 4xx answer, 5xx answers to every retry, a transport error) is not
\* returned as a success of mode PRIMARY and does not reset
\* consecutive_errors.
C39_PrimarySuccessIsReal ==
    [][(res'.op = "execute_tool" /\ calls' = calls + 1
            /\ res'.mode_at_call = "PRIMARY" /\ RemoteFailed(res'))
          => /\ ~(res'.returned /\ res'.success /\ res'.mode = "PRIMARY")
             /\ consecutive_errors' >= consecutive_errors]_vars

====
